---- MODULE Spec2Model ----
(***************************************************************************)
(* Model of the idol agent task-execution core:                            *)
(*   agent/agents/base_agent.py   BaseAgent (queue, loop, history)         *)
(*   agent/agents/idol_agent.py   IdolAgent (dispatch, ledgers)            *)
(*   agent/api/routes.py          registry, royalty route, agent bootstrap *)
(*   agent/services/scheduler.py  content, license and royalty sweeps      *)
(*   agent/story_protocol/client.py  StoryProtocolClient                   *)
(* Every await of an external collaborator is a suspension point, so a     *)
(* task in flight is a loop frame that remembers the pending call.  The    *)
(* StoryProtocolClient methods are coroutines without an await around the  *)
(* synchronous SDK call, so while one of them runs no other coroutine of   *)
(* the event loop takes a step (EventLoopHeld).                            *)
(*                                                                         *)
(* Specifications:                                                         *)
(*   Spec         one agent driven through start, stop, add_task and its   *)
(*                loop instances                                           *)
(*   SpecClock    the same with the clock running, fed tasks that complete *)
(*                without releasing the event loop                         *)
(*   SpecTasks    one agent started once, fed every kind of task           *)
(*   SpecHistory  one agent fed enough tasks to fill and evict its history *)
(*   SpecServer   the registry, the royalty route and the royalty sweep    *)
(*   SpecFair     two agents started once, under the scheduler's fairness  *)
(*   SpecRestart  one agent started and stopped repeatedly, under fairness *)
(*   SpecStatus   a bootstrapped agent read through get_status/get_metrics *)
(*   SpecRoutes   the five HTTP routes over the registry                   *)
(*   SpecRegistry the registry under repeated bootstraps and reads         *)
(*   SpecSweeps   two bootstrapped agents under the three scheduler sweeps *)
(*   SpecLicense  the license sweep's selection over drawn opportunities   *)
(*   SpecStopStart  one agent, start called only while it is stopped       *)
(*   SpecLedgers  one agent fed license, remix and content tasks           *)
(*   SpecShutdown the server's agents stopped by the shutdown handler      *)
(***************************************************************************)
EXTENDS Integers, Sequences, FiniteSets, TLC

\* ---------------------------------------------------------------- bounds
MaxTasks == 2           \* add_task calls over a behaviour
MaxStarts == 2          \* start calls on one agent over a behaviour
MaxTime == 1            \* clock ticks over a behaviour
MaxDirect == 2          \* royalty requests and royalty sweeps over a behaviour
MaxHistoryTasks == 102  \* add_task calls over a behaviour that fills the history
MaxOpportunities == 4   \* opportunities one market analysis hands to the license sweep
MaxLedgerTasks == 3     \* add_task calls over a behaviour that fills the ledgers

\* ------------------------------------------------------ program constants
HistoryCap == 100
TopOpportunities == 3       \* license_management: opportunities[:3]
ConfidenceThreshold == 7    \* license_management: score > 0.7, in tenths

\* ----------------------------------------------------------- value spaces
Agents == {"a1", "a2"}
NoAgent == "NoAgent"
IdolIds == {"idolA", "idolB"}
IpIds == {"ipA"}
NoTime == -1
None == "None"
Missing == "<missing>"

KnownTypes == {"generate_content", "license_ip", "create_remix", "claim_royalties"}
ConfiguredContentTypes == {"image", "text", "remix"}
SupportedContentTypes == {"image", "text", "video"}

\* task["parameters"]: absent, or the style parameters of a request, the
\* strength in tenths
NoParameters == [given |-> FALSE, style_strength |-> 0, preserve_identity |-> FALSE]
StyleParameters(strength, preserve) ==
    [given |-> TRUE, style_strength |-> strength, preserve_identity |-> preserve]

Task(ty, ct, target, style) ==
    [id |-> 0, type |-> ty, content_type |-> ct,
     target_ip_id |-> target, style_ip_id |-> style, parameters |-> NoParameters]

NoTask == Task("none", None, None, None)

\* The task dictionaries callers hand to add_task.
TaskInputs ==
    {Task("generate_content", None, None, None),
     Task("generate_content", "image", None, None),
     Task("claim_royalties", None, None, None),
     Task("bogus", None, None, None),
     Task(Missing, None, None, None)}
    \cup {Task("license_ip", None, ip, None) : ip \in IpIds}
    \cup {Task("create_remix", None, None, ip) : ip \in IpIds}

Result(st, k, v) == [status |-> st, key |-> k, value |-> v]
NoResult == Result("none", "none", "none")
ErrorResult(msg) == Result("error", "error", msg)

NoCalls == [create_content |-> 0, apply_style |-> 0, upload_json |-> 0,
            mint_license_tokens |-> 0, create_derivative_content |-> 0,
            claim_royalties |-> 0]

NoRequest == [agent |-> NoAgent, ip_id |-> None, children |-> <<>>]
NoResponse == [route |-> "none", code |-> 0, body |-> NoResult]
NoSweep == [task |-> "none", status |-> "none", agents_processed |-> 0]
NoSnapshot == [call |-> "none"]

\* A loop instance: pc is "created" (scheduled by create_task, not yet run),
\* "get" (suspended in wait_for(tasks_queue.get())), "exec" (suspended in a
\* collaborator call made for `task`) or "exited".
NoArgs == [ip_id |-> None]
IdleFrame(pc) == [pc |-> pc, task |-> NoTask, call |-> "none", args |-> NoArgs,
                  ctype |-> None, tok |-> 0, child |-> 0, children |-> <<>>]

VARIABLES
    constructed,          \* agent objects that exist
    idol_id,              \* IdolAgent.idol_id
    created_at,           \* BaseAgent.created_at
    is_active,            \* BaseAgent.is_active
    last_activity,        \* BaseAgent.last_activity (NoTime = None)
    tasks_queue,          \* BaseAgent.tasks_queue
    execution_history,    \* BaseAgent.execution_history
    licensed_ips,         \* IdolAgent.licensed_ips
    created_derivatives,  \* IdolAgent.created_derivatives
    loops,                \* the _task_execution_loop instances of each agent
    calls,                \* calls received by each agent's collaborators
    now,                  \* datetime.utcnow()
    nextId,               \* identity of the next task object handed to add_task
    add_outcome,          \* how the last add_task call ended
    agent_registry,       \* routes.agent_registry, keyed by idol id
    http_claim,           \* the royalty request suspended in its claim call
    http_sleeping,        \* the content requests in their asyncio.sleep(2)
    response,             \* the last response of the HTTP layer
    sweep_result,         \* what the last royalty sweep returned
    direct,               \* royalty requests and sweeps made so far
    snapshot,             \* what the last get_status / get_metrics of each agent returned
    opportunities,        \* license_management: the list analyze_market_opportunities gave it
    selected,             \* license_management: the opportunities it asked a license task for
    init_log              \* how the last initialize_idol_agent ended, as its log line tells

vars == <<constructed, idol_id, created_at, is_active, last_activity, tasks_queue,
          execution_history, licensed_ips, created_derivatives, loops, calls,
          now, nextId, add_outcome, agent_registry, http_claim, http_sleeping,
          response, sweep_result, direct, snapshot, opportunities, selected,
          init_log>>

agentVars == <<is_active, last_activity, tasks_queue, execution_history,
               licensed_ips, created_derivatives, loops>>
serverVars == <<agent_registry, http_claim, http_sleeping, response,
                sweep_result, direct>>

\* ------------------------------------------------------------ pure helpers
Inc(c, name) == IF name = "none" THEN c ELSE [c EXCEPT ![name] = @ + 1]

\* a trim that keeps the oldest 100 entries: execution_history[:100]
TrimHistoryOldest(h) ==
    IF Len(h) > HistoryCap THEN SubSeq(h, 1, HistoryCap) ELSE h

\* execution_history[-100:] applied when len(execution_history) > 100
TrimHistory(h) ==
    IF Len(h) > HistoryCap THEN SubSeq(h, Len(h) - HistoryCap + 1, Len(h)) ELSE h

\* a get that returns the head but drops the tail end
QueueGetWrongEnd(q) == [item |-> Head(q), rest |-> SubSeq(q, 1, Len(q) - 1)]

\* asyncio.Queue.get on a non-empty queue: the item returned, the queue left
QueueGet(q) == [item |-> Head(q), rest |-> Tail(q)]

\* next((lic for lic in licensed_ips if lic["ip_id"] == style_ip_id), None),
\* as the index of the record (0 = None)
RECURSIVE FirstLicense(_, _, _)
FirstLicense(lic, ip, i) ==
    IF i > Len(lic) THEN 0
    ELSE IF lic[i].ip_id = ip THEN i
    ELSE FirstLicense(lic, ip, i + 1)

\* a child list that names only the derivative created last
ChildIpIdsLatest(der) == IF der = <<>> THEN <<>> ELSE <<der[Len(der)].ip_id>>

\* [d["ip_id"] for d in created_derivatives]
ChildIpIds(der) == [i \in 1..Len(der) |-> der[i].ip_id]

\* What a stretch of execute_task between two suspension points yields: the
\* collaborator call it is now awaiting (call = "none" when execute_task has
\* returned `result`), the locals kept across the await, and the ledgers.
Outcome(call, ct, tok, child, children, result, lic, der) ==
    [call |-> call, ctype |-> ct, tok |-> tok, child |-> child,
     children |-> children, result |-> result, lic |-> lic, der |-> der]

\* claim_accumulated_royalties without its early return
ClaimFirstUnguarded(lic, der) ==
    Outcome("claim_royalties", None, 0, 0, ChildIpIds(der), NoResult, lic, der)

\* claim_accumulated_royalties up to its first await
ClaimFirst(lic, der) ==
    IF der = <<>>
    THEN Outcome("none", None, 0, 0, <<>>,
                 Result("no_derivatives", "claimed", "0"), lic, der)
    ELSE Outcome("claim_royalties", None, 0, 0, ChildIpIds(der), NoResult, lic, der)

\* a task wrapper that hands the claim's own result back
ClaimRoyaltiesTaskBare(o) == o

\* _claim_royalties_task around a claim that returned without awaiting:
\* {"status": "success", "royalties": result}, the inner result being known
\* by its status
ClaimRoyaltiesTask(o) ==
    IF o.call = "none"
    THEN [o EXCEPT !.result = Result("success", "royalties", o.result.status)]
    ELSE o

\* a create_remix that reuses the license recorded last for the style IP
RemixFirstLatestLicense(task, lic, der, c) ==
    LET m == {i \in 1..Len(lic) : lic[i].ip_id = task.style_ip_id} IN
    IF m = {}
    THEN Outcome("mint_license_tokens", None, c.mint_license_tokens + 1, 0, <<>>,
                 NoResult, lic, der)
    ELSE Outcome("apply_style", None,
                 lic[CHOOSE i \in m : \A j \in m : j <= i].license_tokens[1],
                 0, <<>>, NoResult, lic, der)

\* a create_remix that licenses the style IP without looking for a record
RemixFirstAlwaysMints(task, lic, der, c) ==
    Outcome("mint_license_tokens", None, c.mint_license_tokens + 1, 0, <<>>,
            NoResult, lic, der)

\* create_remix up to its first await
RemixFirst(task, lic, der, c) ==
    LET i == FirstLicense(lic, task.style_ip_id, 1) IN
    IF i = 0
    THEN Outcome("mint_license_tokens", None, c.mint_license_tokens + 1, 0, <<>>,
                 NoResult, lic, der)
    ELSE Outcome("apply_style", None, lic[i].license_tokens[1], 0, <<>>,
                 NoResult, lic, der)

\* a dispatch whose final branch runs the content handler instead of raising
DispatchNoDefault(task, lic, der, c, ct) ==
    CASE task.type = "license_ip" ->
            Outcome("mint_license_tokens", None, c.mint_license_tokens + 1, 0, <<>>,
                    NoResult, lic, der)
      [] task.type = "create_remix" -> RemixFirst(task, lic, der, c)
      [] task.type = "claim_royalties" ->
            ClaimRoyaltiesTask(ClaimFirst(lic, der))
      [] OTHER ->
            Outcome("create_content",
                    IF task.content_type = None THEN ct ELSE task.content_type,
                    0, 0, <<>>, NoResult, lic, der)

\* execute_task from its entry to its first await, ct being the draw of
\* random.choice when the task names no content type
Dispatch(task, lic, der, c, ct) ==
    CASE task.type = "generate_content" ->
            Outcome("create_content",
                    IF task.content_type = None THEN ct ELSE task.content_type,
                    0, 0, <<>>, NoResult, lic, der)
      [] task.type = "license_ip" ->
            Outcome("mint_license_tokens", None, c.mint_license_tokens + 1, 0, <<>>,
                    NoResult, lic, der)
      [] task.type = "create_remix" -> RemixFirst(task, lic, der, c)
      [] task.type = "claim_royalties" ->
            ClaimRoyaltiesTask(ClaimFirst(lic, der))
      [] OTHER ->
            Outcome("none", None, 0, 0, <<>>, ErrorResult("Unknown task type"), lic, der)

\* an execute_task whose handlers track the license or the derivative before
\* the blockchain call that makes it has returned
ResumeTracksFailedCall(f, ok, lic, der, c) ==
    LET t == f.task IN
    IF ~ok
    THEN Outcome("none", None, 0, 0, <<>>, ErrorResult("collaborator failure"),
                 IF f.call = "mint_license_tokens"
                 THEN Append(lic, [ip_id |-> IF t.type = "create_remix"
                                             THEN t.style_ip_id ELSE t.target_ip_id,
                                   license_tokens |-> <<f.tok>>])
                 ELSE lic,
                 IF f.call = "create_derivative_content"
                 THEN Append(der, [ip_id |-> f.child, content_type |-> f.ctype,
                                   style_ip |-> None])
                 ELSE der)
    ELSE CASE f.call = "create_content" ->
                 Outcome("upload_json", f.ctype, f.tok, 0, <<>>, NoResult, lic, der)
           [] f.call = "apply_style" ->
                 Outcome("upload_json", f.ctype, f.tok, 0, <<>>, NoResult, lic, der)
           [] f.call = "upload_json" ->
                 Outcome("create_derivative_content", f.ctype, f.tok,
                         c.create_derivative_content + 1, <<>>, NoResult, lic, der)
           [] f.call = "create_derivative_content" ->
                 IF t.type = "create_remix"
                 THEN Outcome("none", None, 0, 0, <<>>,
                              Result("success", "remix", "derivative"), lic,
                              Append(der, [ip_id |-> f.child, content_type |-> "remix",
                                           style_ip |-> t.style_ip_id]))
                 ELSE Outcome("none", None, 0, 0, <<>>,
                              Result("success", "content", "derivative"), lic,
                              Append(der, [ip_id |-> f.child, content_type |-> f.ctype,
                                           style_ip |-> None]))
           [] f.call = "mint_license_tokens" ->
                 IF t.type = "create_remix"
                 THEN Outcome("apply_style", None, f.tok, 0, <<>>, NoResult,
                              Append(lic, [ip_id |-> t.style_ip_id,
                                           license_tokens |-> <<f.tok>>]), der)
                 ELSE Outcome("none", None, 0, 0, <<>>,
                              Result("success", "license", "minted"),
                              Append(lic, [ip_id |-> t.target_ip_id,
                                           license_tokens |-> <<f.tok>>]), der)
           [] f.call = "claim_royalties" ->
                 Outcome("none", None, 0, 0, <<>>,
                         Result("success", "royalties", "claimed"), lic, der)

\* an execute_task whose create_remix keeps no record of the license it
\* minted
ResumeRemixForgetsLicense(f, ok, lic, der, c) ==
    LET t == f.task IN
    IF ~ok
    THEN Outcome("none", None, 0, 0, <<>>, ErrorResult("collaborator failure"), lic, der)
    ELSE CASE f.call = "create_content" ->
                 Outcome("upload_json", f.ctype, f.tok, 0, <<>>, NoResult, lic, der)
           [] f.call = "apply_style" ->
                 Outcome("upload_json", f.ctype, f.tok, 0, <<>>, NoResult, lic, der)
           [] f.call = "upload_json" ->
                 Outcome("create_derivative_content", f.ctype, f.tok,
                         c.create_derivative_content + 1, <<>>, NoResult, lic, der)
           [] f.call = "create_derivative_content" ->
                 IF t.type = "create_remix"
                 THEN Outcome("none", None, 0, 0, <<>>,
                              Result("success", "remix", "derivative"), lic,
                              Append(der, [ip_id |-> f.child, content_type |-> "remix",
                                           style_ip |-> t.style_ip_id]))
                 ELSE Outcome("none", None, 0, 0, <<>>,
                              Result("success", "content", "derivative"), lic,
                              Append(der, [ip_id |-> f.child, content_type |-> f.ctype,
                                           style_ip |-> None]))
           [] f.call = "mint_license_tokens" ->
                 IF t.type = "create_remix"
                 THEN Outcome("apply_style", None, f.tok, 0, <<>>, NoResult, lic, der)
                 ELSE Outcome("none", None, 0, 0, <<>>,
                              Result("success", "license", "minted"),
                              Append(lic, [ip_id |-> t.target_ip_id,
                                           license_tokens |-> <<f.tok>>]), der)
           [] f.call = "claim_royalties" ->
                 Outcome("none", None, 0, 0, <<>>,
                         Result("success", "royalties", "claimed"), lic, der)

\* execute_task from the return of the awaited call (ok) or its failure
\* (~ok) to the next await
Resume(f, ok, lic, der, c) ==
    LET t == f.task IN
    IF ~ok
    THEN Outcome("none", None, 0, 0, <<>>, ErrorResult("collaborator failure"), lic, der)
    ELSE CASE f.call = "create_content" ->
                 Outcome("upload_json", f.ctype, f.tok, 0, <<>>, NoResult, lic, der)
           [] f.call = "apply_style" ->
                 Outcome("upload_json", f.ctype, f.tok, 0, <<>>, NoResult, lic, der)
           [] f.call = "upload_json" ->
                 Outcome("create_derivative_content", f.ctype, f.tok,
                         c.create_derivative_content + 1, <<>>, NoResult, lic, der)
           [] f.call = "create_derivative_content" ->
                 IF t.type = "create_remix"
                 THEN Outcome("none", None, 0, 0, <<>>,
                              Result("success", "remix", "derivative"), lic,
                              Append(der, [ip_id |-> f.child, content_type |-> "remix",
                                           style_ip |-> t.style_ip_id]))
                 ELSE Outcome("none", None, 0, 0, <<>>,
                              Result("success", "content", "derivative"), lic,
                              Append(der, [ip_id |-> f.child, content_type |-> f.ctype,
                                           style_ip |-> None]))
           [] f.call = "mint_license_tokens" ->
                 IF t.type = "create_remix"
                 THEN Outcome("apply_style", None, f.tok, 0, <<>>, NoResult,
                              Append(lic, [ip_id |-> t.style_ip_id,
                                           license_tokens |-> <<f.tok>>]), der)
                 ELSE Outcome("none", None, 0, 0, <<>>,
                              Result("success", "license", "minted"),
                              Append(lic, [ip_id |-> t.target_ip_id,
                                           license_tokens |-> <<f.tok>>]), der)
           [] f.call = "claim_royalties" ->
                 Outcome("none", None, 0, 0, <<>>,
                         Result("success", "royalties", "claimed"), lic, der)

\* The arguments of a collaborator call other than the ones the frame keeps
\* as locals: the IP the call is made for and, for apply_style, the style
\* IP and the parameters dictionary create_remix writes out.
CallArgs(a, task, call) ==
    CASE call = "apply_style" ->
            [ip_id |-> idol_id[a], style_ip_id |-> task.style_ip_id,
             style_strength |-> 7, preserve_identity |-> TRUE]
      [] call = "claim_royalties" -> [ip_id |-> idol_id[a]]
      [] OTHER -> NoArgs

\* the loop test without the flag: `while True`
AfterIterationAlways(a) == "get"

\* `while self.is_active` as evaluated right after an iteration ends
AfterIteration(a) == IF is_active[a] THEN "get" ELSE "exited"

\* The loop body were execute_task to let a handler exception through: the
\* loop's own `except Exception` logs it and nothing is recorded.
AdvanceUncaught(a, l, task, o) ==
    /\ calls' = [calls EXCEPT ![a] = Inc(@, o.call)]
    /\ licensed_ips' = [licensed_ips EXCEPT ![a] = o.lic]
    /\ created_derivatives' = [created_derivatives EXCEPT ![a] = o.der]
    /\ IF o.call = "none"
       THEN /\ last_activity' =
                   [last_activity EXCEPT ![a] =
                        IF o.result.status = "error" THEN @ ELSE now]
            /\ execution_history' =
                   [execution_history EXCEPT ![a] =
                        IF o.result.status = "error" THEN @
                        ELSE TrimHistory(Append(@, [task |-> task, result |-> o.result,
                                                    timestamp |-> now]))]
            /\ loops' = [loops EXCEPT ![a][l] = IdleFrame(AfterIteration(a))]
       ELSE /\ loops' = [loops EXCEPT ![a][l] =
                             [pc |-> "exec", task |-> task, call |-> o.call,
                              args |-> CallArgs(a, task, o.call),
                              ctype |-> o.ctype, tok |-> o.tok, child |-> o.child,
                              children |-> o.children]]
            /\ UNCHANGED <<last_activity, execution_history>>

\* A loop body that undoes the last license of the agent when the task
\* fails.
AdvanceRollsBack(a, l, task, o) ==
    /\ calls' = [calls EXCEPT ![a] = Inc(@, o.call)]
    /\ licensed_ips' =
           [licensed_ips EXCEPT ![a] =
                IF o.call = "none" /\ o.result.status = "error" /\ o.lic # <<>>
                THEN SubSeq(o.lic, 1, Len(o.lic) - 1) ELSE o.lic]
    /\ created_derivatives' = [created_derivatives EXCEPT ![a] = o.der]
    /\ IF o.call = "none"
       THEN /\ last_activity' = [last_activity EXCEPT ![a] = now]
            /\ execution_history' =
                   [execution_history EXCEPT ![a] =
                        TrimHistory(Append(@, [task |-> task, result |-> o.result,
                                               timestamp |-> now]))]
            /\ loops' = [loops EXCEPT ![a][l] = IdleFrame(AfterIteration(a))]
       ELSE /\ loops' = [loops EXCEPT ![a][l] =
                             [pc |-> "exec", task |-> task, call |-> o.call,
                              args |-> CallArgs(a, task, o.call),
                              ctype |-> o.ctype, tok |-> o.tok, child |-> o.child,
                              children |-> o.children]]
            /\ UNCHANGED <<last_activity, execution_history>>

\* A loop body that stamps last_activity at every suspension of the task,
\* ahead of the history entry.
AdvanceStampsFirst(a, l, task, o) ==
    /\ calls' = [calls EXCEPT ![a] = Inc(@, o.call)]
    /\ licensed_ips' = [licensed_ips EXCEPT ![a] = o.lic]
    /\ created_derivatives' = [created_derivatives EXCEPT ![a] = o.der]
    /\ last_activity' = [last_activity EXCEPT ![a] = now]
    /\ IF o.call = "none"
       THEN /\ execution_history' =
                   [execution_history EXCEPT ![a] =
                        TrimHistory(Append(@, [task |-> task, result |-> o.result,
                                               timestamp |-> now]))]
            /\ loops' = [loops EXCEPT ![a][l] = IdleFrame(AfterIteration(a))]
       ELSE /\ loops' = [loops EXCEPT ![a][l] =
                             [pc |-> "exec", task |-> task, call |-> o.call,
                              args |-> CallArgs(a, task, o.call),
                              ctype |-> o.ctype, tok |-> o.tok, child |-> o.child,
                              children |-> o.children]]
            /\ UNCHANGED execution_history

\* The loop body from where execute_task stands at outcome o to the next
\* suspension of loop l: either the new await, or (execute_task returned)
\* last_activity, the history append, the trim and the loop test.
Advance(a, l, task, o) ==
    /\ calls' = [calls EXCEPT ![a] = Inc(@, o.call)]
    /\ licensed_ips' = [licensed_ips EXCEPT ![a] = o.lic]
    /\ created_derivatives' = [created_derivatives EXCEPT ![a] = o.der]
    /\ IF o.call = "none"
       THEN /\ last_activity' = [last_activity EXCEPT ![a] = now]
            /\ execution_history' =
                   [execution_history EXCEPT ![a] =
                        TrimHistory(Append(@, [task |-> task, result |-> o.result,
                                               timestamp |-> now]))]
            /\ loops' = [loops EXCEPT ![a][l] = IdleFrame(AfterIteration(a))]
       ELSE /\ loops' = [loops EXCEPT ![a][l] =
                             [pc |-> "exec", task |-> task, call |-> o.call,
                              args |-> CallArgs(a, task, o.call),
                              ctype |-> o.ctype, tok |-> o.tok, child |-> o.child,
                              children |-> o.children]]
            /\ UNCHANGED <<last_activity, execution_history>>

\* ------------------------------------------------------------------ state
\* a constructor that leaves the flag set: self.is_active = True
ConstructedActive(made, idol, opps) ==
    /\ constructed = made
    /\ idol_id = [a \in Agents |-> IF a \in made THEN idol ELSE None]
    /\ created_at = [a \in Agents |-> IF a \in made THEN 0 ELSE NoTime]
    /\ is_active = [a \in Agents |-> a \in made]
    /\ last_activity = [a \in Agents |-> NoTime]
    /\ tasks_queue = [a \in Agents |-> <<>>]
    /\ execution_history = [a \in Agents |-> <<>>]
    /\ licensed_ips = [a \in Agents |-> <<>>]
    /\ created_derivatives = [a \in Agents |-> <<>>]
    /\ loops = [a \in Agents |-> <<>>]
    /\ calls = [a \in Agents |-> NoCalls]
    /\ now = 0
    /\ nextId = 1
    /\ add_outcome = "none"
    /\ agent_registry = [i \in IdolIds |-> NoAgent]
    /\ http_claim = NoRequest
    /\ http_sleeping = <<>>
    /\ response = NoResponse
    /\ sweep_result = NoSweep
    /\ direct = 0
    /\ snapshot = [a \in Agents |-> NoSnapshot]
    /\ opportunities = opps
    /\ selected = <<>>
    /\ init_log = "none"

\* BaseAgent.__init__ and IdolAgent.__init__ for the agents in `made`, and
\* a license sweep about to look at the list opps
ConstructedWith(made, idol, opps) ==
    /\ constructed = made
    /\ idol_id = [a \in Agents |-> IF a \in made THEN idol ELSE None]
    /\ created_at = [a \in Agents |-> IF a \in made THEN 0 ELSE NoTime]
    /\ is_active = [a \in Agents |-> FALSE]
    /\ last_activity = [a \in Agents |-> NoTime]
    /\ tasks_queue = [a \in Agents |-> <<>>]
    /\ execution_history = [a \in Agents |-> <<>>]
    /\ licensed_ips = [a \in Agents |-> <<>>]
    /\ created_derivatives = [a \in Agents |-> <<>>]
    /\ loops = [a \in Agents |-> <<>>]
    /\ calls = [a \in Agents |-> NoCalls]
    /\ now = 0
    /\ nextId = 1
    /\ add_outcome = "none"
    /\ agent_registry = [i \in IdolIds |-> NoAgent]
    /\ http_claim = NoRequest
    /\ http_sleeping = <<>>
    /\ response = NoResponse
    /\ sweep_result = NoSweep
    /\ direct = 0
    /\ snapshot = [a \in Agents |-> NoSnapshot]
    /\ opportunities = opps
    /\ selected = <<>>
    /\ init_log = "none"

\* BaseAgent.__init__ and IdolAgent.__init__ for the agents in `made`
Constructed(made, idol) == ConstructedWith(made, idol, <<>>)

\* one agent, just constructed
Init == Constructed({"a1"}, "idolA")

\* the server at startup: no agent yet
InitServer == Constructed({}, None)

\* ------------------------------------------------------------- operations
\* The StoryProtocolClient methods are `async def` bodies with no await in
\* them: each calls the synchronous SDK with wait_for_transaction, so the
\* coroutine that awaits one keeps the event loop until the call returns or
\* raises.  The generation, style and storage clients await their HTTP
\* sessions and do suspend.
StoryClientCalls ==
    {"mint_license_tokens", "create_derivative_content", "claim_royalties"}

\* loop instance l of agent a is inside a StoryProtocolClient call
HoldsEventLoop(a, l) ==
    /\ l \in 1..Len(loops[a])
    /\ loops[a][l].pc = "exec"
    /\ loops[a][l].call \in StoryClientCalls

\* some coroutine of the process is inside a StoryProtocolClient call
EventLoopHeld ==
    \/ http_claim # NoRequest
    \/ \E a \in Agents : \E l \in 1..Len(loops[a]) : HoldsEventLoop(a, l)

\* a start that clears the activity timestamp before launching the loop
StartBodyResets(a) ==
    /\ is_active' = [is_active EXCEPT ![a] = TRUE]
    /\ last_activity' = [last_activity EXCEPT ![a] = NoTime]
    /\ loops' = [loops EXCEPT ![a] = Append(@, IdleFrame("created"))]

\* the body of BaseAgent.start
StartBody(a) ==
    /\ is_active' = [is_active EXCEPT ![a] = TRUE]
    /\ last_activity' = [last_activity EXCEPT ![a] = now]
    /\ loops' = [loops EXCEPT ![a] = Append(@, IdleFrame("created"))]

\* BaseAgent.start
Start(a) ==
    /\ ~EventLoopHeld
    /\ a \in constructed
    /\ Len(loops[a]) < MaxStarts
    /\ StartBody(a)
    /\ UNCHANGED <<init_log, opportunities, selected, constructed, idol_id, created_at, snapshot, tasks_queue, execution_history,
                   licensed_ips, created_derivatives, calls, now, nextId,
                   add_outcome, serverVars>>

\* a stop that also cancels the loop instances of the agent
StopCancels(a) ==
    /\ ~EventLoopHeld
    /\ a \in constructed
    /\ is_active' = [is_active EXCEPT ![a] = FALSE]
    /\ loops' = [loops EXCEPT ![a] = [l \in 1..Len(@) |-> IdleFrame("exited")]]
    /\ UNCHANGED <<init_log, opportunities, selected, constructed, idol_id, created_at, snapshot, last_activity,
                   tasks_queue, execution_history, licensed_ips,
                   created_derivatives, calls, now, nextId, add_outcome,
                   serverVars>>

\* BaseAgent.stop
Stop(a) ==
    /\ ~EventLoopHeld
    /\ a \in constructed
    /\ is_active' = [is_active EXCEPT ![a] = FALSE]
    /\ UNCHANGED <<init_log, opportunities, selected, constructed, idol_id, created_at, snapshot, last_activity, tasks_queue,
                   execution_history, licensed_ips, created_derivatives, loops,
                   calls, now, nextId, add_outcome, serverVars>>

\* BaseAgent.add_task: the put, then the debug line that reads task['type'];
\* budget caps the calls made over a behaviour
AddTaskWithin(a, t, budget) ==
    /\ ~EventLoopHeld
    /\ a \in constructed
    /\ nextId <= budget
    /\ tasks_queue' = [tasks_queue EXCEPT ![a] = Append(@, [t EXCEPT !.id = nextId])]
    /\ nextId' = nextId + 1
    /\ add_outcome' = IF t.type = Missing THEN "KeyError" ELSE "returned"
    /\ UNCHANGED <<init_log, opportunities, selected, constructed, idol_id, created_at, snapshot, is_active, last_activity,
                   execution_history, licensed_ips, created_derivatives, loops,
                   calls, now, serverVars>>

AddTask(a, t) == AddTaskWithin(a, t, MaxTasks)

\* _task_execution_loop: the first evaluation of `while self.is_active` by a
\* loop that create_task has scheduled
LoopBegin(a, l) ==
    /\ ~EventLoopHeld
    /\ l \in 1..Len(loops[a])
    /\ loops[a][l].pc = "created"
    /\ loops' = [loops EXCEPT ![a][l] = IdleFrame(AfterIteration(a))]
    /\ UNCHANGED <<init_log, opportunities, selected, constructed, idol_id, created_at, snapshot, is_active, last_activity, tasks_queue,
                   execution_history, licensed_ips, created_derivatives, calls,
                   now, nextId, add_outcome, serverVars>>

\* a timeout that goes back to waiting without testing the flag
LoopTimeoutKeepsWaiting(a, l) ==
    /\ ~EventLoopHeld
    /\ l \in 1..Len(loops[a])
    /\ loops[a][l].pc = "get"
    /\ tasks_queue[a] = <<>>
    /\ UNCHANGED vars

\* a timeout that ends the loop: `except asyncio.TimeoutError: break`
LoopTimeoutExits(a, l) ==
    /\ ~EventLoopHeld
    /\ l \in 1..Len(loops[a])
    /\ loops[a][l].pc = "get"
    /\ tasks_queue[a] = <<>>
    /\ loops' = [loops EXCEPT ![a][l] = IdleFrame("exited")]
    /\ UNCHANGED <<init_log, opportunities, selected, constructed, idol_id, created_at,
                   snapshot, is_active, last_activity, tasks_queue,
                   execution_history, licensed_ips, created_derivatives, calls,
                   now, nextId, add_outcome, serverVars>>

\* _task_execution_loop: wait_for(get) times out on an empty queue
LoopTimeout(a, l) ==
    /\ ~EventLoopHeld
    /\ l \in 1..Len(loops[a])
    /\ loops[a][l].pc = "get"
    /\ tasks_queue[a] = <<>>
    /\ loops' = [loops EXCEPT ![a][l] = IdleFrame(AfterIteration(a))]
    /\ UNCHANGED <<init_log, opportunities, selected, constructed, idol_id, created_at, snapshot, is_active, last_activity, tasks_queue,
                   execution_history, licensed_ips, created_derivatives, calls,
                   now, nextId, add_outcome, serverVars>>

\* _task_execution_loop: get returns the head of the queue and execute_task
\* runs to its first await (or to its return)
LoopDequeue(a, l) ==
    /\ ~EventLoopHeld
    /\ l \in 1..Len(loops[a])
    /\ loops[a][l].pc = "get"
    /\ tasks_queue[a] # <<>>
    /\ LET got == QueueGet(tasks_queue[a])
           task == got.item IN
       /\ tasks_queue' = [tasks_queue EXCEPT ![a] = got.rest]
       /\ \E ct \in ConfiguredContentTypes :
            /\ (task.type = "generate_content" /\ task.content_type = None)
                   \/ ct = "image"
            /\ Advance(a, l, task,
                       Dispatch(task, licensed_ips[a], created_derivatives[a],
                                calls[a], ct))
    /\ UNCHANGED <<init_log, opportunities, selected, constructed, idol_id, created_at, snapshot, is_active, now, nextId, add_outcome,
                   serverVars>>

\* ContentGenerator.create_content rejects a content type it does not know
CallCanSucceed(f) ==
    f.call = "create_content" => f.ctype \in SupportedContentTypes

\* _task_execution_loop: the awaited collaborator call returns or raises and
\* execute_task runs on to its next await (or to its return)
LoopCallReturns(a, l, ok) ==
    /\ l \in 1..Len(loops[a])
    /\ loops[a][l].pc = "exec"
    /\ HoldsEventLoop(a, l) \/ ~EventLoopHeld
    /\ ok => CallCanSucceed(loops[a][l])
    /\ Advance(a, l, loops[a][l].task,
               Resume(loops[a][l], ok, licensed_ips[a], created_derivatives[a],
                      calls[a]))
    /\ UNCHANGED <<init_log, opportunities, selected, constructed, idol_id, created_at, snapshot, is_active, tasks_queue, now, nextId,
                   add_outcome, serverVars>>

\* a metrics dictionary whose queue depth also counts the tasks in flight
MetricsCountingUnfinished(a) ==
    [call |-> "get_metrics",
     is_active |-> is_active[a],
     created_at |-> created_at[a],
     last_activity |-> last_activity[a],
     tasks_in_queue |-> Len(tasks_queue[a])
                        + Cardinality({l \in 1..Len(loops[a]) : loops[a][l].pc = "exec"}),
     tasks_executed |-> Len(execution_history[a]),
     uptime_seconds |-> now - created_at[a]]

\* a metrics dictionary whose uptime is counted from the last activity
MetricsSinceActivity(a) ==
    [call |-> "get_metrics",
     is_active |-> is_active[a],
     created_at |-> created_at[a],
     last_activity |-> last_activity[a],
     tasks_in_queue |-> Len(tasks_queue[a]),
     tasks_executed |-> Len(execution_history[a]),
     uptime_seconds |-> now - last_activity[a]]

\* the dictionary BaseAgent.get_metrics returns (agent_id is the key a)
MetricsOf(a) ==
    [call |-> "get_metrics",
     is_active |-> is_active[a],
     created_at |-> created_at[a],
     last_activity |-> last_activity[a],
     tasks_in_queue |-> Len(tasks_queue[a]),
     tasks_executed |-> Len(execution_history[a]),
     uptime_seconds |-> now - created_at[a]]

\* the dictionary IdolAgent.get_status returns; next_post_time, read off the
\* posting schedule fixed at construction, is left out
StatusOf(a) ==
    [call |-> "get_status",
     idol_id |-> idol_id[a],
     is_active |-> is_active[a],
     last_activity |-> last_activity[a],
     content_created |-> Len(created_derivatives[a]),
     licenses_held |-> Len(licensed_ips[a]),
     metrics |-> MetricsOf(a)]

\* BaseAgent.get_metrics, called from a coroutine of the event loop
GetMetrics(a) ==
    /\ ~EventLoopHeld
    /\ a \in constructed
    /\ snapshot' = [snapshot EXCEPT ![a] = MetricsOf(a)]
    /\ UNCHANGED <<init_log, opportunities, selected, constructed, idol_id, created_at, agentVars, calls, now,
                   nextId, add_outcome, serverVars>>

\* IdolAgent.get_status, called from a coroutine of the event loop
GetStatus(a) ==
    /\ ~EventLoopHeld
    /\ a \in constructed
    /\ snapshot' = [snapshot EXCEPT ![a] = StatusOf(a)]
    /\ UNCHANGED <<init_log, opportunities, selected, constructed, idol_id, created_at, agentVars, calls, now,
                   nextId, add_outcome, serverVars>>

\* datetime.utcnow() moves on
Tick ==
    /\ now < MaxTime
    /\ now' = now + 1
    /\ UNCHANGED <<init_log, opportunities, selected, constructed, idol_id, created_at, snapshot, is_active, last_activity, tasks_queue,
                   execution_history, licensed_ips, created_derivatives, loops,
                   calls, nextId, add_outcome, serverVars>>

\* a bootstrap that puts the agent in the registry before starting it, when
\* the start then raises: the handle is registered, no loop was created
InitializeRegistersFirst(a, idol) ==
    /\ ~EventLoopHeld
    /\ a \notin constructed
    /\ constructed' = constructed \cup {a}
    /\ idol_id' = [idol_id EXCEPT ![a] = idol]
    /\ created_at' = [created_at EXCEPT ![a] = now]
    /\ agent_registry' = [agent_registry EXCEPT ![idol] = a]
    /\ init_log' = "failed"
    /\ UNCHANGED <<opportunities, selected, is_active, last_activity, loops,
                   tasks_queue, execution_history, licensed_ips,
                   created_derivatives, calls, now, nextId, add_outcome,
                   http_claim, http_sleeping, response, sweep_result, direct,
                   snapshot>>

\* a bootstrap that registers with setdefault: an id already in the registry
\* keeps its first agent
InitializeKeepsFirst(a, idol) ==
    /\ ~EventLoopHeld
    /\ a \notin constructed
    /\ constructed' = constructed \cup {a}
    /\ idol_id' = [idol_id EXCEPT ![a] = idol]
    /\ created_at' = [created_at EXCEPT ![a] = now]
    /\ StartBody(a)
    /\ agent_registry' = [agent_registry EXCEPT ![idol] =
                              IF @ = NoAgent THEN a ELSE @]
    /\ init_log' = "initialized"
    /\ UNCHANGED <<opportunities, selected, tasks_queue, execution_history, licensed_ips,
                   created_derivatives, calls, now, nextId, add_outcome,
                   http_claim, http_sleeping, response, sweep_result, direct,
                   snapshot>>

\* routes.initialize_idol_agent: build the agent, start it, register it
InitializeIdolAgent(a, idol) ==
    /\ ~EventLoopHeld
    /\ a \notin constructed
    /\ constructed' = constructed \cup {a}
    /\ idol_id' = [idol_id EXCEPT ![a] = idol]
    /\ created_at' = [created_at EXCEPT ![a] = now]
    /\ StartBody(a)
    /\ agent_registry' = [agent_registry EXCEPT ![idol] = a]
    /\ init_log' = "initialized"
    /\ UNCHANGED <<opportunities, selected, tasks_queue, execution_history, licensed_ips,
                   created_derivatives, calls, now, nextId, add_outcome,
                   http_claim, http_sleeping, response, sweep_result, direct,
                   snapshot>>

\* routes.initialize_idol_agent when a constructor of the clients or of the
\* agent raises: the except logs the failure, no agent object is left
InitializeFailsInConstruction(idol) ==
    /\ ~EventLoopHeld
    /\ init_log' = "failed"
    /\ UNCHANGED <<opportunities, selected, constructed, idol_id, created_at,
                   snapshot, agentVars, calls, now, nextId, add_outcome,
                   serverVars>>

\* routes.initialize_idol_agent when agent.start() raises at its
\* create_task: the agent was built and its flag and stamp were set, no loop
\* was created, and the except is reached before the registry is written
InitializeFailsInStart(a, idol) ==
    /\ ~EventLoopHeld
    /\ a \notin constructed
    /\ constructed' = constructed \cup {a}
    /\ idol_id' = [idol_id EXCEPT ![a] = idol]
    /\ created_at' = [created_at EXCEPT ![a] = now]
    /\ is_active' = [is_active EXCEPT ![a] = TRUE]
    /\ last_activity' = [last_activity EXCEPT ![a] = now]
    /\ init_log' = "failed"
    /\ UNCHANGED <<opportunities, selected, loops, tasks_queue, execution_history,
                   licensed_ips, created_derivatives, calls, now, nextId,
                   add_outcome, snapshot, serverVars>>

\* a lookup that falls back on some registered agent
LookupWithFallback(idol) ==
    IF agent_registry[idol] # NoAgent THEN agent_registry[idol]
    ELSE IF \E i \in IdolIds : agent_registry[i] # NoAgent
         THEN agent_registry[CHOOSE i \in IdolIds : agent_registry[i] # NoAgent]
         ELSE NoAgent

\* agent_registry.get(f"idol-{idol_id}")
Lookup(idol) == agent_registry[idol]

\* raise HTTPException(status_code=404, detail="Idol agent not found")
NotFound(route) ==
    [route |-> route, code |-> 404, body |-> ErrorResult("Idol agent not found")]

\* a royalty route that hands the claim to the agent as a claim_royalties
\* task instead of calling it
RouteClaimEnqueues(idol) ==
    /\ ~EventLoopHeld
    /\ direct < MaxDirect
    /\ direct' = direct + 1
    /\ LET a == Lookup(idol) IN
       IF a = NoAgent
       THEN /\ response' = NotFound("claim_royalties")
            /\ UNCHANGED tasks_queue
       ELSE /\ tasks_queue' = [tasks_queue EXCEPT ![a] =
                                   Append(@, Task("claim_royalties", None, None, None))]
            /\ response' = [route |-> "claim_royalties", code |-> 200,
                            body |-> Result("success", "royalties_claimed", "queued")]
    /\ UNCHANGED <<init_log, opportunities, selected, constructed, idol_id, created_at, snapshot,
                   is_active, last_activity, execution_history, licensed_ips,
                   created_derivatives, loops, calls, now, nextId, add_outcome,
                   agent_registry, http_claim, http_sleeping, sweep_result>>

\* routes.claim_royalties (POST /idols/{idol_id}/royalties/claim) up to the
\* await inside claim_accumulated_royalties
RouteClaimRoyalties(idol) ==
    /\ ~EventLoopHeld
    /\ direct < MaxDirect
    /\ direct' = direct + 1
    /\ LET a == Lookup(idol) IN
       IF a = NoAgent
       THEN /\ response' = NotFound("claim_royalties")
            /\ UNCHANGED <<calls, http_claim>>
       ELSE LET o == ClaimFirst(licensed_ips[a], created_derivatives[a]) IN
            /\ calls' = [calls EXCEPT ![a] = Inc(@, o.call)]
            /\ IF o.call = "none"
               THEN /\ response' = [route |-> "claim_royalties", code |-> 200,
                                    body |-> Result("success", "royalties_claimed",
                                                    o.result.status)]
                    /\ UNCHANGED http_claim
               ELSE /\ http_claim' = [agent |-> a, ip_id |-> idol_id[a],
                                      children |-> o.children]
                    /\ UNCHANGED response
    /\ UNCHANGED <<init_log, opportunities, selected, constructed, idol_id, created_at, snapshot, agentVars, now,
                   nextId, add_outcome, agent_registry, http_sleeping,
                   sweep_result>>

\* routes.claim_royalties from the return (ok) or failure (~ok) of the claim
\* call to the response
RouteClaimReturns(ok) ==
    /\ http_claim # NoRequest
    /\ http_claim' = NoRequest
    /\ response' = IF ok
                   THEN [route |-> "claim_royalties", code |-> 200,
                         body |-> Result("success", "royalties_claimed", "claimed")]
                   ELSE [route |-> "claim_royalties", code |-> 500,
                         body |-> ErrorResult("collaborator failure")]
    /\ UNCHANGED <<init_log, opportunities, selected, constructed, idol_id, created_at, snapshot, agentVars, calls,
                   now, nextId, add_outcome, agent_registry, http_sleeping,
                   sweep_result, direct>>

\* the content types the content requests name
RouteContentTypes == {"image"}

\* routes.generate_content (POST /idols/{idol_id}/content/generate) up to its
\* asyncio.sleep(2)
RouteGenerateContent(idol, ct) ==
    /\ ~EventLoopHeld
    /\ direct < MaxDirect
    /\ direct' = direct + 1
    /\ LET a == Lookup(idol) IN
       IF a = NoAgent
       THEN /\ response' = NotFound("generate_content")
            /\ UNCHANGED <<tasks_queue, nextId, add_outcome, http_sleeping>>
       ELSE /\ nextId <= MaxTasks
            /\ tasks_queue' =
                   [tasks_queue EXCEPT ![a] =
                        Append(@, [Task("generate_content", ct, None, None)
                                      EXCEPT !.id = nextId])]
            /\ nextId' = nextId + 1
            /\ add_outcome' = "returned"
            /\ http_sleeping' = Append(http_sleeping, ct)
            /\ UNCHANGED response
    /\ UNCHANGED <<init_log, opportunities, selected, constructed, idol_id, created_at, snapshot, is_active,
                   last_activity, execution_history, licensed_ips,
                   created_derivatives, loops, calls, now, agent_registry,
                   http_claim, sweep_result>>

\* routes.generate_content from the end of its sleep to the response
RouteGenerateReturns(k) ==
    /\ ~EventLoopHeld
    /\ k \in 1..Len(http_sleeping)
    /\ http_sleeping' = [j \in 1..(Len(http_sleeping) - 1) |->
                            IF j < k THEN http_sleeping[j] ELSE http_sleeping[j + 1]]
    /\ response' = [route |-> "generate_content", code |-> 200,
                    body |-> Result("content_generation_initiated", "content_type",
                                    http_sleeping[k])]
    /\ UNCHANGED <<init_log, opportunities, selected, constructed, idol_id, created_at, snapshot, agentVars, calls,
                   now, nextId, add_outcome, agent_registry, http_claim,
                   sweep_result, direct>>

\* the parameters the style requests carry: StyleApplicationRequest's
\* defaults (0.7, true) and a request that sets both fields
StyleRequests == {StyleParameters(7, TRUE), StyleParameters(9, FALSE)}

\* routes.apply_style (POST /idols/{idol_id}/style/apply)
RouteApplyStyle(idol, ip, prm) ==
    /\ ~EventLoopHeld
    /\ direct < MaxDirect
    /\ direct' = direct + 1
    /\ LET a == Lookup(idol) IN
       IF a = NoAgent
       THEN /\ response' = NotFound("apply_style")
            /\ UNCHANGED <<tasks_queue, nextId, add_outcome>>
       ELSE /\ nextId <= MaxTasks
            /\ tasks_queue' =
                   [tasks_queue EXCEPT ![a] =
                        Append(@, [Task("create_remix", None, None, ip)
                                      EXCEPT !.id = nextId, !.parameters = prm])]
            /\ nextId' = nextId + 1
            /\ add_outcome' = "returned"
            /\ response' = [route |-> "apply_style", code |-> 200,
                            body |-> Result("remix_creation_initiated",
                                            "style_ip_id", ip)]
    /\ UNCHANGED <<init_log, opportunities, selected, constructed, idol_id, created_at, snapshot, is_active,
                   last_activity, execution_history, licensed_ips,
                   created_derivatives, loops, calls, now, agent_registry,
                   http_claim, http_sleeping, sweep_result>>

\* routes.get_idol_status (GET /idols/{idol_id}/status)
RouteGetStatus(idol) ==
    /\ ~EventLoopHeld
    /\ direct < MaxDirect
    /\ direct' = direct + 1
    /\ LET a == Lookup(idol) IN
       IF a = NoAgent
       THEN /\ response' = NotFound("get_idol_status")
            /\ UNCHANGED snapshot
       ELSE /\ snapshot' = [snapshot EXCEPT ![a] = StatusOf(a)]
            /\ response' = [route |-> "get_idol_status", code |-> 200,
                            body |-> Result("success", "agent_id", a)]
    /\ UNCHANGED <<init_log, opportunities, selected, constructed, idol_id, created_at, agentVars, calls, now,
                   nextId, add_outcome, agent_registry, http_claim,
                   http_sleeping, sweep_result>>

\* routes.get_idol_analytics (GET /idols/{idol_id}/analytics)
RouteGetAnalytics(idol) ==
    /\ ~EventLoopHeld
    /\ direct < MaxDirect
    /\ direct' = direct + 1
    /\ LET a == Lookup(idol) IN
       IF a = NoAgent
       THEN /\ response' = NotFound("get_idol_analytics")
            /\ UNCHANGED snapshot
       ELSE /\ snapshot' = [snapshot EXCEPT ![a] = MetricsOf(a)]
            /\ response' = [route |-> "get_idol_analytics", code |-> 200,
                            body |-> Result("success", "agent_metrics", a)]
    /\ UNCHANGED <<init_log, opportunities, selected, constructed, idol_id, created_at, agentVars, calls, now,
                   nextId, add_outcome, agent_registry, http_claim,
                   http_sleeping, sweep_result>>

\* the agents scheduler.royalty_collection does not skip
SweepClaimers ==
    {a \in Agents : /\ \E i \in IdolIds : agent_registry[i] = a
                    /\ is_active[a]
                    /\ created_derivatives[a] # <<>>}

\* a royalty sweep without the try around an agent's turn: the first claim
\* that raises ends the task, the agents after it are not reached and
\* nothing is returned
RoyaltySweepAborts(failed) ==
    /\ direct < MaxDirect
    /\ direct' = direct + 1
    /\ failed \subseteq SweepClaimers
    /\ calls' = [a \in Agents |->
                   IF a \in SweepClaimers /\ (failed = {} \/ a \in failed)
                   THEN Inc(calls[a],
                            ClaimFirst(licensed_ips[a], created_derivatives[a]).call)
                   ELSE calls[a]]
    /\ sweep_result' = IF failed = {}
                       THEN [task |-> "royalty_collection", status |-> "completed",
                             agents_processed |-> Cardinality(SweepClaimers)]
                       ELSE [task |-> "royalty_collection", status |-> "raised",
                             agents_processed |-> 0]
    /\ UNCHANGED <<init_log, opportunities, selected, constructed, idol_id, created_at, snapshot, agentVars, now,
                   nextId, add_outcome, agent_registry, http_claim,
                   http_sleeping, response>>

\* scheduler.royalty_collection: one synchronous claim per agent it does not
\* skip; failed is the set of agents whose claim raises
RoyaltySweep(failed) ==
    /\ direct < MaxDirect
    /\ direct' = direct + 1
    /\ failed \subseteq SweepClaimers
    /\ calls' = [a \in Agents |->
                   IF a \in SweepClaimers
                   THEN Inc(calls[a],
                            ClaimFirst(licensed_ips[a], created_derivatives[a]).call)
                   ELSE calls[a]]
    /\ sweep_result' = [task |-> "royalty_collection", status |-> "completed",
                        agents_processed |-> Cardinality(SweepClaimers \ failed)]
    /\ UNCHANGED <<init_log, opportunities, selected, constructed, idol_id, created_at, snapshot, agentVars, now,
                   nextId, add_outcome, agent_registry, http_claim,
                   http_sleeping, response>>

\* the agents the registry holds
Registered == {agent_registry[i] : i \in IdolIds} \ {NoAgent}

\* a shutdown that leaves its loop after the first agent
ShutdownEventStopsOne ==
    /\ ~EventLoopHeld
    /\ is_active' = [a \in Agents |->
                       IF Registered # {} /\ a = CHOOSE b \in Registered : TRUE
                       THEN FALSE ELSE is_active[a]]
    /\ UNCHANGED <<init_log, opportunities, selected, constructed, idol_id, created_at,
                   snapshot, last_activity, tasks_queue, execution_history,
                   licensed_ips, created_derivatives, loops, calls, now, nextId,
                   add_outcome, serverVars>>

\* routes.shutdown_event: stop() on every value of the registry; stop never
\* suspends, so the handler is one step of the event loop
ShutdownEvent ==
    /\ ~EventLoopHeld
    /\ is_active' = [a \in Agents |-> IF a \in Registered THEN FALSE ELSE is_active[a]]
    /\ UNCHANGED <<init_log, opportunities, selected, constructed, idol_id, created_at,
                   snapshot, last_activity, tasks_queue, execution_history,
                   licensed_ips, created_derivatives, loops, calls, now, nextId,
                   add_outcome, serverVars>>

\* the agents the content and license sweeps do not skip: the values of the
\* registry that are active
ActiveAgents ==
    {a \in Agents : /\ \E i \in IdolIds : agent_registry[i] = a
                    /\ is_active[a]}

\* asyncio.create_task(agent.add_task(t)) as the scheduler calls it, from a
\* synchronous Celery task: no event loop is running in that thread, so
\* create_task raises RuntimeError and the coroutine object is never run;
\* the queue q is what it was
ScheduleAddTask(q, t) == q

\* scheduler.autonomous_content_generation: one create_task per active
\* agent, each inside its own try / except Exception
ContentSweep ==
    /\ direct < MaxDirect
    /\ direct' = direct + 1
    /\ tasks_queue' =
           [a \in Agents |->
               IF a \in ActiveAgents
               THEN ScheduleAddTask(tasks_queue[a],
                                    Task("generate_content", None, None, None))
               ELSE tasks_queue[a]]
    /\ sweep_result' = [task |-> "autonomous_content_generation",
                        status |-> "completed",
                        agents_processed |-> Cardinality(ActiveAgents)]
    /\ UNCHANGED <<init_log, opportunities, selected, constructed, idol_id, created_at,
                   snapshot, is_active, last_activity, execution_history,
                   licensed_ips, created_derivatives, loops, calls, now, nextId,
                   add_outcome, agent_registry, http_claim, http_sleeping,
                   response>>

\* IdolAgent.analyze_market_opportunities: the list it returns
AnalyzeMarketOpportunities(a) == <<>>

\* opportunity.get("score", 0)
ScoreOf(o) == IF o.has_score THEN o.score ELSE 0

\* opportunity.get("score", 0) > 0.7
HighConfidence(o) == ScoreOf(o) > ConfidenceThreshold

\* a selection that looks at every opportunity of the list
HighConfidenceAll(opps) == SelectSeq(opps, HighConfidence)

\* license_management: the opportunities of opps a license_ip task is asked
\* for: `for opportunity in opportunities[:3]: if score > 0.7`
HighConfidenceTop(opps) ==
    SelectSeq(SubSeq(opps, 1, IF Len(opps) < TopOpportunities
                              THEN Len(opps) ELSE TopOpportunities),
              HighConfidence)

\* the agents for which license_management appends a result: the analysis
\* returned and no create_task was reached (a create_task raises, and the
\* except around the agent's turn takes over)
LicenseReported ==
    {a \in ActiveAgents : HighConfidenceTop(AnalyzeMarketOpportunities(a)) = <<>>}

\* scheduler.license_management
LicenseSweep ==
    /\ direct < MaxDirect
    /\ direct' = direct + 1
    /\ tasks_queue' =
           [a \in Agents |->
               IF a \in ActiveAgents /\ HighConfidenceTop(AnalyzeMarketOpportunities(a)) # <<>>
               THEN ScheduleAddTask(tasks_queue[a],
                        Task("license_ip", None,
                             HighConfidenceTop(AnalyzeMarketOpportunities(a))[1].ip_id,
                             None))
               ELSE tasks_queue[a]]
    /\ sweep_result' = [task |-> "license_management", status |-> "completed",
                        agents_processed |-> Cardinality(LicenseReported)]
    /\ UNCHANGED <<init_log, opportunities, selected, constructed, idol_id, created_at,
                   snapshot, is_active, last_activity, execution_history,
                   licensed_ips, created_derivatives, loops, calls, now, nextId,
                   add_outcome, agent_registry, http_claim, http_sleeping,
                   response>>

\* license_management's selection applied to the list `opportunities`
SelectOpportunities ==
    /\ selected' = HighConfidenceTop(opportunities)
    /\ UNCHANGED <<init_log, opportunities, constructed, idol_id, created_at, snapshot,
                   agentVars, calls, now, nextId, add_outcome, serverVars>>

\* The task dictionaries, agent objects and idol ids the server behaviours use.
ServerTaskInputs ==
    {Task("generate_content", "image", None, None),
     Task("claim_royalties", None, None, None)}
ServerAgents == {"a1"}
ServerIdols == {"idolA"}

\* The task dictionaries the behaviours of Spec feed the loop: one whose
\* handler suspends in the generation and storage clients before it calls
\* the StoryProtocolClient, one of an unknown type and one with no type.
CoreTaskInputs ==
    {Task("generate_content", "image", None, None),
     Task("bogus", None, None, None),
     Task(Missing, None, None, None)}

Next ==
    \/ \E a \in Agents : Start(a)
    \/ \E a \in Agents : Stop(a)
    \/ \E a \in Agents, t \in CoreTaskInputs : AddTask(a, t)
    \/ \E a \in Agents, l \in 1..MaxStarts : LoopBegin(a, l)
    \/ \E a \in Agents, l \in 1..MaxStarts : LoopTimeout(a, l)
    \/ \E a \in Agents, l \in 1..MaxStarts : LoopDequeue(a, l)
    \/ \E a \in Agents, l \in 1..MaxStarts, ok \in BOOLEAN : LoopCallReturns(a, l, ok)

Spec == Init /\ [][Next]_vars

NextServer ==
    \/ \E a \in ServerAgents, i \in ServerIdols : InitializeIdolAgent(a, i)
    \/ \E a \in Agents : Stop(a)
    \/ \E a \in Agents, t \in ServerTaskInputs : AddTask(a, t)
    \/ \E a \in Agents, l \in 1..MaxStarts : LoopBegin(a, l)
    \/ \E a \in Agents, l \in 1..MaxStarts : LoopTimeout(a, l)
    \/ \E a \in Agents, l \in 1..MaxStarts : LoopDequeue(a, l)
    \/ \E a \in Agents, l \in 1..MaxStarts, ok \in BOOLEAN : LoopCallReturns(a, l, ok)
    \/ \E i \in IdolIds : RouteClaimRoyalties(i)
    \/ \E ok \in BOOLEAN : RouteClaimReturns(ok)
    \/ \E failed \in SUBSET Agents : RoyaltySweep(failed)

SpecServer == InitServer /\ [][NextServer]_vars

\* One agent whose start is called once, fed every kind of task.
StartOnce(a) == Len(loops[a]) = 0 /\ Start(a)

NextTasks ==
    \/ \E a \in Agents : StartOnce(a)
    \/ \E a \in Agents : Stop(a)
    \/ \E a \in Agents, t \in TaskInputs : AddTask(a, t)
    \/ \E a \in Agents, l \in 1..MaxStarts : LoopBegin(a, l)
    \/ \E a \in Agents, l \in 1..MaxStarts : LoopTimeout(a, l)
    \/ \E a \in Agents, l \in 1..MaxStarts : LoopDequeue(a, l)
    \/ \E a \in Agents, l \in 1..MaxStarts, ok \in BOOLEAN : LoopCallReturns(a, l, ok)
    \/ Tick

SpecTasks == Init /\ [][NextTasks]_vars

\* One agent, started once, fed tasks of an unknown type until its history
\* has been full and has evicted.
HistoryTaskInputs == {Task("bogus", None, None, None)}

NextHistory ==
    \/ \E a \in Agents : Start(a)
    \/ \E a \in Agents : Stop(a)
    \/ \E a \in Agents, t \in HistoryTaskInputs : AddTaskWithin(a, t, MaxHistoryTasks)
    \/ \E a \in Agents, l \in 1..MaxStarts : LoopBegin(a, l)
    \/ \E a \in Agents, l \in 1..MaxStarts : LoopTimeout(a, l)
    \/ \E a \in Agents, l \in 1..MaxStarts : LoopDequeue(a, l)

SpecHistory == Init /\ [][NextHistory]_vars

\* One agent, started once, fed licenses of two IPs, remixes and content
\* tasks: enough tasks to hold several license records before a remix.
LedgerTaskInputs ==
    {Task("license_ip", None, "ipB", None),
     Task("license_ip", None, "ipA", None),
     Task("create_remix", None, None, "ipA"),
     Task("generate_content", "image", None, None)}

NextLedgers ==
    \/ \E a \in Agents : StartOnce(a)
    \/ \E a \in Agents, t \in LedgerTaskInputs : AddTaskWithin(a, t, MaxLedgerTasks)
    \/ \E a \in Agents, l \in 1..MaxStarts : LoopBegin(a, l)
    \/ \E a \in Agents, l \in 1..MaxStarts : LoopTimeout(a, l)
    \/ \E a \in Agents, l \in 1..MaxStarts : LoopDequeue(a, l)
    \/ \E a \in Agents, l \in 1..MaxStarts, ok \in BOOLEAN : LoopCallReturns(a, l, ok)

SpecLedgers == Init /\ [][NextLedgers]_vars

\* Two agents side by side, under the guarantees of the asyncio runtime: a
\* task made by create_task gets to run, the 60 s timer of wait_for fires,
\* and a get on a non-empty queue returns.  Whether a collaborator call
\* returns is left open.
FairTaskInputs ==
    {Task("license_ip", None, "ipA", None),
     Task("bogus", None, None, None)}

InitFair == Constructed(Agents, "idolA")

NextFair ==
    \/ \E a \in Agents : StartOnce(a)
    \/ \E a \in Agents : Stop(a)
    \/ \E a \in Agents, t \in FairTaskInputs : AddTask(a, t)
    \/ \E a \in Agents, l \in 1..MaxStarts : LoopBegin(a, l)
    \/ \E a \in Agents, l \in 1..MaxStarts : LoopTimeout(a, l)
    \/ \E a \in Agents, l \in 1..MaxStarts : LoopDequeue(a, l)
    \/ \E a \in Agents, l \in 1..MaxStarts, ok \in BOOLEAN : LoopCallReturns(a, l, ok)

RuntimeFairness ==
    \A a \in Agents : \A l \in 1..MaxStarts :
       /\ WF_vars(LoopBegin(a, l))
       /\ WF_vars(LoopTimeout(a, l))
       /\ WF_vars(LoopDequeue(a, l))

SpecFair == InitFair /\ [][NextFair]_vars /\ RuntimeFairness

\* One agent started, stopped and started again at will, under the same
\* guarantees of the runtime.
NextRestart ==
    \/ \E a \in Agents : Start(a)
    \/ \E a \in Agents : Stop(a)
    \/ \E a \in Agents, t \in FairTaskInputs : AddTask(a, t)
    \/ \E a \in Agents, l \in 1..MaxStarts : LoopBegin(a, l)
    \/ \E a \in Agents, l \in 1..MaxStarts : LoopTimeout(a, l)
    \/ \E a \in Agents, l \in 1..MaxStarts : LoopDequeue(a, l)
    \/ \E a \in Agents, l \in 1..MaxStarts, ok \in BOOLEAN : LoopCallReturns(a, l, ok)

SpecRestart == Init /\ [][NextRestart]_vars /\ RuntimeFairness

\* One agent whose start is only ever called while it is stopped: started,
\* stopped, started again.
StartStopped(a) == ~is_active[a] /\ Start(a)

NextStopStart ==
    \/ \E a \in Agents : StartStopped(a)
    \/ \E a \in Agents : Stop(a)
    \/ \E a \in Agents, t \in CoreTaskInputs : AddTask(a, t)
    \/ \E a \in Agents, l \in 1..MaxStarts : LoopBegin(a, l)
    \/ \E a \in Agents, l \in 1..MaxStarts : LoopTimeout(a, l)
    \/ \E a \in Agents, l \in 1..MaxStarts : LoopDequeue(a, l)
    \/ \E a \in Agents, l \in 1..MaxStarts, ok \in BOOLEAN : LoopCallReturns(a, l, ok)

SpecStopStart == Init /\ [][NextStopStart]_vars /\ RuntimeFairness

\* One agent started, stopped and restarted while the clock runs.
NextClock ==
    \/ \E a \in Agents : Start(a)
    \/ \E a \in Agents : Stop(a)
    \/ \E a \in Agents, t \in FairTaskInputs : AddTask(a, t)
    \/ \E a \in Agents, l \in 1..MaxStarts : LoopBegin(a, l)
    \/ \E a \in Agents, l \in 1..MaxStarts : LoopTimeout(a, l)
    \/ \E a \in Agents, l \in 1..MaxStarts : LoopDequeue(a, l)
    \/ \E a \in Agents, l \in 1..MaxStarts, ok \in BOOLEAN : LoopCallReturns(a, l, ok)
    \/ Tick

SpecClock == Init /\ [][NextClock]_vars

\* One agent brought up and started by the server at some time, then fed
\* tasks, stopped and polled for its status and metrics while the clock runs.
StatusTaskInputs ==
    {Task("license_ip", None, "ipA", None),
     Task("bogus", None, None, None)}

NextStatus ==
    \/ \E a \in ServerAgents, i \in ServerIdols : InitializeIdolAgent(a, i)
    \/ \E a \in Agents : Stop(a)
    \/ \E a \in Agents, t \in StatusTaskInputs : AddTask(a, t)
    \/ \E a \in Agents, l \in 1..MaxStarts : LoopBegin(a, l)
    \/ \E a \in Agents, l \in 1..MaxStarts : LoopTimeout(a, l)
    \/ \E a \in Agents, l \in 1..MaxStarts : LoopDequeue(a, l)
    \/ \E a \in Agents, l \in 1..MaxStarts, ok \in BOOLEAN : LoopCallReturns(a, l, ok)
    \/ \E a \in Agents : GetMetrics(a)
    \/ \E a \in Agents : GetStatus(a)
    \/ Tick

SpecStatus == InitServer /\ [][NextStatus]_vars

\* The server's routes: requests for idols with and without a registered
\* agent, and the loop of the agent they reach.
NextRoutes ==
    \/ \E a \in ServerAgents, i \in ServerIdols : InitializeIdolAgent(a, i)
    \/ \E a \in Agents, l \in 1..MaxStarts : LoopBegin(a, l)
    \/ \E a \in Agents, l \in 1..MaxStarts : LoopTimeout(a, l)
    \/ \E a \in Agents, l \in 1..MaxStarts : LoopDequeue(a, l)
    \/ \E a \in Agents, l \in 1..MaxStarts, ok \in BOOLEAN : LoopCallReturns(a, l, ok)
    \/ \E i \in IdolIds : RouteClaimRoyalties(i)
    \/ \E ok \in BOOLEAN : RouteClaimReturns(ok)
    \/ \E i \in IdolIds, ct \in RouteContentTypes : RouteGenerateContent(i, ct)
    \/ \E k \in 1..MaxDirect : RouteGenerateReturns(k)
    \/ \E i \in IdolIds, ip \in IpIds, prm \in StyleRequests : RouteApplyStyle(i, ip, prm)
    \/ \E i \in IdolIds : RouteGetStatus(i)
    \/ \E i \in IdolIds : RouteGetAnalytics(i)

SpecRoutes == InitServer /\ [][NextRoutes]_vars

\* The registry as idols are created, two of them possibly under one id, and
\* looked up by the read routes.
NextRegistry ==
    \/ \E a \in Agents, i \in IdolIds : InitializeIdolAgent(a, i)
    \/ \E i \in IdolIds : InitializeFailsInConstruction(i)
    \/ \E a \in Agents, i \in IdolIds : InitializeFailsInStart(a, i)
    \/ \E a \in Agents : Stop(a)
    \/ \E a \in Agents, l \in 1..MaxStarts : LoopBegin(a, l)
    \/ \E a \in Agents, l \in 1..MaxStarts : LoopTimeout(a, l)
    \/ \E i \in IdolIds : RouteGetStatus(i)
    \/ \E i \in IdolIds : RouteGetAnalytics(i)

SpecRegistry == InitServer /\ [][NextRegistry]_vars

\* Two idols with their agents, fed content tasks, and the three periodic
\* sweeps of the scheduler over the registry.
SweepTaskInputs == {Task("generate_content", "image", None, None)}
SweepBootstraps == {<<"a1", "idolA">>, <<"a2", "idolB">>}

NextSweeps ==
    \/ \E b \in SweepBootstraps : InitializeIdolAgent(b[1], b[2])
    \/ \E a \in Agents : Stop(a)
    \/ \E a \in Agents, t \in SweepTaskInputs : AddTask(a, t)
    \/ \E a \in Agents, l \in 1..MaxStarts : LoopBegin(a, l)
    \/ \E a \in Agents, l \in 1..MaxStarts : LoopTimeout(a, l)
    \/ \E a \in Agents, l \in 1..MaxStarts : LoopDequeue(a, l)
    \/ \E a \in Agents, l \in 1..MaxStarts, ok \in BOOLEAN : LoopCallReturns(a, l, ok)
    \/ ContentSweep
    \/ LicenseSweep
    \/ \E failed \in SUBSET Agents : RoyaltySweep(failed)

SpecSweeps == InitServer /\ [][NextSweeps]_vars

\* The server with two idols, one of them registered twice, their agents fed
\* tasks and never stopped but by the shutdown of the server.
ShutdownBootstraps == {<<"a1", "idolA">>, <<"a2", "idolB">>, <<"a2", "idolA">>}
ShutdownTaskInputs ==
    {Task("generate_content", "image", None, None),
     Task("bogus", None, None, None)}

NextShutdown ==
    \/ \E b \in ShutdownBootstraps : InitializeIdolAgent(b[1], b[2])
    \/ \E a \in Agents, t \in ShutdownTaskInputs : AddTask(a, t)
    \/ \E a \in Agents, l \in 1..MaxStarts : LoopBegin(a, l)
    \/ \E a \in Agents, l \in 1..MaxStarts : LoopTimeout(a, l)
    \/ \E a \in Agents, l \in 1..MaxStarts : LoopDequeue(a, l)
    \/ \E a \in Agents, l \in 1..MaxStarts, ok \in BOOLEAN : LoopCallReturns(a, l, ok)
    \/ ShutdownEvent

SpecShutdown == InitServer /\ [][NextShutdown]_vars

\* The license sweep, and its selection applied to every short list of
\* opportunities: the k-th opportunity of a list names the IP k and has no
\* score, the threshold score or a score above it.
OpportunityKinds ==
    {[has_score |-> FALSE, score |-> 0],
     [has_score |-> TRUE, score |-> ConfidenceThreshold],
     [has_score |-> TRUE, score |-> ConfidenceThreshold + 1]}

OpportunityLists ==
    UNION {{[k \in 1..n |-> [ip_id |-> k, has_score |-> f[k].has_score,
                              score |-> f[k].score]] :
               f \in [1..n -> OpportunityKinds]} : n \in 0..MaxOpportunities}

InitLicense == \E opps \in OpportunityLists : ConstructedWith({}, None, opps)

NextLicense ==
    \/ \E a \in ServerAgents, i \in ServerIdols : InitializeIdolAgent(a, i)
    \/ \E a \in Agents : Stop(a)
    \/ LicenseSweep
    \/ SelectOpportunities

SpecLicense == InitLicense /\ [][NextLicense]_vars

\* ----------------------------------------------------------------- claims
LoopIds(a) == 1..Len(loops[a])
\* loop instances that have passed `while self.is_active` and not exited
LiveLoops(a) == {l \in LoopIds(a) : loops[a][l].pc \in {"get", "exec"}}
\* loop instances holding a task that is dequeued and not yet recorded
InFlight(a) == {l \in LoopIds(a) : loops[a][l].pc = "exec"}

\* C1: for every agent, at most one instance of the task execution loop is
\* live at any time, whatever start, stop, add_task and loop steps happened.
C1_AtMostOneLiveLoop ==
    \A a \in Agents : Cardinality(LiveLoops(a)) <= 1

\* C2: within one agent no two tasks are ever both dequeued and not yet
\* completed.
C2_OneTaskAtATime ==
    \A a \in Agents : Cardinality(InFlight(a)) <= 1

IsPrefix(p, q) == Len(p) <= Len(q) /\ SubSeq(q, 1, Len(p)) = p

\* C3 as stated: once stop has left is_active false, no step dequeues a task
\* of that agent (its queue only grows).
C3_NoDequeueAfterStop ==
    [][\A a \in Agents :
          ~is_active[a] => IsPrefix(tasks_queue[a], tasks_queue'[a])]_vars

\* C3 as amended: while is_active is false no loop instance begins a new
\* dequeue attempt (a loop that moves goes into a task or exits), and when no
\* loop instance is suspended in a dequeue attempt begun before the stop,
\* nothing is dequeued and the tasks added stay in the queue.
C3_NoNewDequeueAttemptAfterStop ==
    [][\A a \in Agents :
          ~is_active[a] =>
             /\ \A l \in LoopIds(a) :
                   loops'[a][l] # loops[a][l]
                      => loops'[a][l].pc \in {"exec", "exited"}
             /\ (\A l \in LoopIds(a) : loops[a][l].pc # "get")
                   => IsPrefix(tasks_queue[a], tasks_queue'[a])]_vars

\* a stopped agent whose loop has exited and that holds a task added since
C3_Witness ==
    \E a \in Agents :
       /\ ~is_active[a]
       /\ LoopIds(a) # {}
       /\ \A l \in LoopIds(a) : loops[a][l].pc = "exited"
       /\ tasks_queue[a] # <<>>
       /\ execution_history[a] # <<>>

TaskIds(h) == [i \in 1..Len(h) |-> h[i].task.id]

\* C4: tasks are recorded in the execution history in the order add_task
\* accepted them (task ids are handed out in that order).
C4_HistoryInFifoOrder ==
    \A a \in Agents :
       \A i, j \in 1..Len(execution_history[a]) :
          i < j => execution_history[a][i].task.id < execution_history[a][j].task.id

\* every queue empty and no task in flight
Drained ==
    \A a \in Agents : tasks_queue[a] = <<>> /\ InFlight(a) = {}

\* the places in the histories where task id is recorded
RecordedAt(id) ==
    {<<a, i>> \in Agents \X (1..MaxTasks) :
        i <= Len(execution_history[a]) /\ execution_history[a][i].task.id = id}

\* C5: once the queue is drained the history holds exactly one entry for
\* every task handed to add_task: none lost, none recorded twice.
C5_EachTaskRecordedOnce ==
    Drained =>
       /\ \A id \in 1..(nextId - 1) : Cardinality(RecordedAt(id)) = 1
       /\ \A a \in Agents :
             \A i \in 1..Len(execution_history[a]) :
                execution_history[a][i].task.id \in 1..(nextId - 1)

\* MaxTasks tasks were added, the agent was started, the queue is drained
C5_Witness ==
    /\ nextId - 1 = MaxTasks
    /\ Drained
    /\ \E a \in Agents : Len(execution_history[a]) = MaxTasks /\ LoopIds(a) # {}

\* tasks of agent a that were dequeued and recorded
Completed(a) == nextId - 1 - Len(tasks_queue[a]) - Cardinality(InFlight(a))

\* C6: the history never holds more than 100 entries, and what it holds are
\* the most recently completed tasks in their order of completion: after the
\* 101st task the entries are tasks #2 to #101.
C6_HistoryIsLastHundred ==
    \A a \in constructed :
       LET h == execution_history[a] IN
       /\ Len(h) <= HistoryCap
       /\ Len(h) = IF Completed(a) < HistoryCap THEN Completed(a) ELSE HistoryCap
       /\ \A i \in 1..Len(h) : h[i].task.id = Completed(a) - Len(h) + i

\* the 101st task has completed: entry #1 is gone, #2 to #101 are left
C6_Witness ==
    \E a \in constructed :
       LET h == execution_history[a] IN
       /\ Len(h) = HistoryCap
       /\ h[1].task.id = 2
       /\ h[HistoryCap].task.id = HistoryCap + 1

LastEntry(h) == h[Len(h)]

\* C7: when the collaborator call a task is awaiting fails, the loop does
\* not terminate: the task is appended to the history with the result
\* {status: "error", error: <message>} and the timestamp last_activity is
\* set to, and the loop goes back to the queue while the agent is active.
C7_HandlerFailureIsRecorded ==
    [][\A a \in Agents : \A l \in LoopIds(a) :
          LoopCallReturns(a, l, FALSE) =>
             /\ Len(execution_history'[a]) = Len(execution_history[a]) + 1
             /\ SubSeq(execution_history'[a], 1, Len(execution_history[a]))
                   = execution_history[a]
             /\ LastEntry(execution_history'[a]).task = loops[a][l].task
             /\ LastEntry(execution_history'[a]).result.status = "error"
             /\ LastEntry(execution_history'[a]).result.key = "error"
             /\ LastEntry(execution_history'[a]).timestamp = now
             /\ last_activity'[a] = now
             /\ is_active[a] => loops'[a][l].pc = "get"]_vars

\* a task failed in a collaborator call and a later task was executed after it
C7_Witness ==
    \E a \in Agents :
       \E i, j \in 1..Len(execution_history[a]) :
          /\ i < j
          /\ execution_history[a][i].result.value = "collaborator failure"
          /\ execution_history[a][i].task.id < execution_history[a][j].task.id
          /\ last_activity[a] = execution_history[a][j].timestamp

\* C8: a task whose type is none of the four known ones is recorded with an
\* error result, makes no collaborator call, changes neither ledger and does
\* not end the loop.
C8_UnknownTypeIsRecorded ==
    [][\A a \in Agents : \A l \in LoopIds(a) :
          (/\ tasks_queue[a] # <<>>
           /\ Head(tasks_queue[a]).type \notin KnownTypes
           /\ LoopDequeue(a, l)) =>
             /\ execution_history'[a]
                   = Append(execution_history[a],
                            [task |-> Head(tasks_queue[a]),
                             result |-> ErrorResult("Unknown task type"),
                             timestamp |-> now])
             /\ calls' = calls
             /\ licensed_ips' = licensed_ips
             /\ created_derivatives' = created_derivatives
             /\ is_active[a] => loops'[a][l].pc = "get"]_vars

\* a task of an unknown type was executed and the loop is still running
C8_Witness ==
    \E a \in Agents :
       /\ \E i \in 1..Len(execution_history[a]) :
             /\ execution_history[a][i].task.type = "bogus"
             /\ execution_history[a][i].result.status = "error"
       /\ \E l \in LoopIds(a) : loops[a][l].pc = "get"
       /\ calls[a] = NoCalls

\* C9: add_task returns normally for every task, also for one with no type.
C9_AddTaskNeverFails ==
    add_outcome # "KeyError"

\* a step in which agent a runs claim_accumulated_royalties from its entry:
\* its loop takes a claim_royalties task, the royalty route is called for its
\* idol id, or the royalty sweep runs
ClaimRoyaltiesStep(a) ==
    \/ /\ tasks_queue[a] # <<>>
       /\ Head(tasks_queue[a]).type = "claim_royalties"
       /\ \E l \in LoopIds(a) : LoopDequeue(a, l)
    \/ \E i \in IdolIds : agent_registry[i] = a /\ RouteClaimRoyalties(i)
    \/ \E failed \in SUBSET Agents : RoyaltySweep(failed)

\* C10: when created_derivatives is empty, running claim_royalties (as a
\* queued task, from the royalty route or from the royalty sweep) makes no
\* call to the blockchain collaborator and leaves no call pending.
C10_NoDerivativesNoBlockchainCall ==
    [][\A a \in Agents :
          (created_derivatives[a] = <<>> /\ ClaimRoyaltiesStep(a)) =>
             /\ calls'[a] = calls[a]
             /\ http_claim' = http_claim
             /\ \A l \in LoopIds(a) :
                   loops'[a][l].call = "claim_royalties"
                      => loops[a][l].call = "claim_royalties"]_vars

\* an agent without derivatives has executed a queued claim_royalties task,
\* answered the royalty route and been passed over by the royalty sweep, and
\* its collaborators have received no call
C10_Witness ==
    \E a \in Agents :
       /\ created_derivatives[a] = <<>>
       /\ calls[a] = NoCalls
       /\ \E i \in 1..Len(execution_history[a]) :
             /\ execution_history[a][i].task.type = "claim_royalties"
             /\ execution_history[a][i].result.value = "no_derivatives"
       /\ response.code = 200
       /\ response.body.value = "no_derivatives"
       /\ sweep_result.status = "completed"

\* a step in which loop l of agent a takes a claim_royalties task while the
\* agent has no derivatives
ClaimTaskWithoutDerivatives(a, l) ==
    /\ tasks_queue[a] # <<>>
    /\ Head(tasks_queue[a]).type = "claim_royalties"
    /\ created_derivatives[a] = <<>>
    /\ LoopDequeue(a, l)

\* C11 as stated: a claim_royalties task executed with no derivatives is
\* recorded in the history with the result {status: "no_derivatives",
\* claimed: 0}.
C11_RecordsBareNoDerivatives ==
    [][\A a \in Agents : \A l \in LoopIds(a) :
          ClaimTaskWithoutDerivatives(a, l) =>
             LastEntry(execution_history'[a]).result
                = Result("no_derivatives", "claimed", "0")]_vars

\* C11 as amended: execute_task returns, and the history records for the
\* task, {status: "success", royalties: {status: "no_derivatives",
\* claimed: 0}}: the short-circuit result wrapped by the task handler.
C11_RecordsWrappedNoDerivatives ==
    [][\A a \in Agents : \A l \in LoopIds(a) :
          ClaimTaskWithoutDerivatives(a, l) =>
             execution_history'[a]
                = Append(execution_history[a],
                         [task |-> Head(tasks_queue[a]),
                          result |-> Result("success", "royalties", "no_derivatives"),
                          timestamp |-> now])]_vars

\* the last task recorded is a claim_royalties task that found no derivatives
C11_Witness ==
    \E a \in Agents :
       /\ execution_history[a] # <<>>
       /\ LastEntry(execution_history[a]).task.type = "claim_royalties"
       /\ LastEntry(execution_history[a]).result
             = Result("success", "royalties", "no_derivatives")
       /\ created_derivatives[a] = <<>>

\* C12: a create_remix that finds no record of the style IP in licensed_ips
\* issues one mint call, at its start, and its style-apply call only when
\* that mint has returned; a create_remix that finds a record goes straight
\* to the style-apply call; no later step of either issues a mint call.
C12_RemixMintsOnceBeforeApply ==
    [][\A a \in Agents : \A l \in LoopIds(a) :
          LET f == loops[a][l]
              g == loops'[a][l]
              minted == calls'[a].mint_license_tokens - calls[a].mint_license_tokens
              applied == calls'[a].apply_style - calls[a].apply_style
          IN
          /\ (/\ tasks_queue[a] # <<>>
              /\ Head(tasks_queue[a]).type = "create_remix"
              /\ LoopDequeue(a, l)) =>
                IF FirstLicense(licensed_ips[a],
                                Head(tasks_queue[a]).style_ip_id, 1) = 0
                THEN g.call = "mint_license_tokens" /\ minted = 1 /\ applied = 0
                ELSE g.call = "apply_style" /\ minted = 0 /\ applied = 1
          /\ (/\ f.pc = "exec"
              /\ f.task.type = "create_remix"
              /\ \E ok \in BOOLEAN : LoopCallReturns(a, l, ok)) =>
                /\ minted = 0
                /\ applied = IF g.call = "apply_style" THEN 1 ELSE 0
                /\ g.call = "apply_style" => f.call = "mint_license_tokens"]_vars

\* two remixes of one style IP were made: the first minted the license, the
\* second reused it
C12_Witness ==
    \E a \in Agents :
       /\ Len(execution_history[a]) = 2
       /\ \A i \in 1..2 :
             /\ execution_history[a][i].task.type = "create_remix"
             /\ execution_history[a][i].result.status = "success"
       /\ calls[a].mint_license_tokens = 1
       /\ calls[a].apply_style = 2
       /\ Len(licensed_ips[a]) = 1

\* C13: a task that is in flight is never dropped, stop or no stop: until
\* its collaborator calls have all returned the loop instance keeps the task,
\* and the step that ends it appends its entry to the history, sets
\* last_activity to the entry's timestamp and only then lets the loop
\* instance exit (which it does when stop has been called).
C13_StopLetsInFlightTaskComplete ==
    [][\A a \in Agents : \A l \in LoopIds(a) :
          LET f == loops[a][l]
              g == loops'[a][l]
          IN
          f.pc = "exec" =>
             \/ g.pc = "exec" /\ g.task = f.task
             \/ /\ g.pc = IF is_active[a] THEN "get" ELSE "exited"
                /\ Len(execution_history'[a]) = Len(execution_history[a]) + 1
                /\ LastEntry(execution_history'[a]).task = f.task
                /\ LastEntry(execution_history'[a]).timestamp = now
                /\ last_activity'[a] = now]_vars

\* stop has been called while a task is in flight
C13_Witness ==
    \E a \in Agents :
       /\ ~is_active[a]
       /\ \E l \in LoopIds(a) :
             /\ loops[a][l].pc = "exec"
             /\ loops[a][l].call = "create_content"

\* every collaborator call awaited by agent a returns or raises
CallsReturn(a) ==
    \A l \in 1..MaxStarts : WF_vars(\E ok \in BOOLEAN : LoopCallReturns(a, l, ok))

\* no loop instance of agent a is still to run, waiting or executing
AllLoopsExited(a) == \A l \in LoopIds(a) : loops[a][l].pc = "exited"

\* C14: once stop has been called on an agent whose collaborator calls
\* return, every loop instance of the agent exits, unless start is called
\* again.
C14_StoppedLoopExits ==
    \A a \in Agents :
       CallsReturn(a) => (~is_active[a] ~> (is_active[a] \/ AllLoopsExited(a)))

\* a stopped agent whose loop has exited after recording a task that awaited
\* a collaborator
C14_Witness ==
    \E a \in Agents :
       /\ ~is_active[a]
       /\ LoopIds(a) # {}
       /\ AllLoopsExited(a)
       /\ \E i \in 1..Len(execution_history[a]) :
             execution_history[a][i].task.type = "license_ip"

Queued(a, id) == \E i \in 1..Len(tasks_queue[a]) : tasks_queue[a][i].id = id
Recorded(a, id) ==
    \E i \in 1..Len(execution_history[a]) : execution_history[a][i].task.id = id

\* C15: for each agent whose own collaborator calls return, every task in
\* the queue while the agent is running is eventually recorded in its
\* history, unless the agent is stopped; the progress of one agent does not
\* depend on the calls of another, which may stay blocked for as long as
\* they like.
C15_AgentsProgressIndependently ==
    \A a \in Agents :
       CallsReturn(a) =>
          \A id \in 1..MaxTasks :
             (is_active[a] /\ Queued(a, id)) ~> (~is_active[a] \/ Recorded(a, id))

\* C16: last_activity never moves back: every start and every task
\* completion, with a success or an error result, sets it to the current
\* time, which is the timestamp of the entry recorded, and no other step
\* touches it.
C16_LastActivityNeverGoesBack ==
    [][\A a \in Agents :
          /\ last_activity'[a] >= last_activity[a]
          /\ Start(a) => last_activity'[a] = now
          /\ execution_history'[a] # execution_history[a] =>
                /\ last_activity'[a] = now
                /\ LastEntry(execution_history'[a]).timestamp = now
          /\ last_activity'[a] # last_activity[a] =>
                Start(a) \/ execution_history'[a] # execution_history[a]]_vars

\* an active agent recorded a task, the clock moved on, and it recorded a
\* failed task at the later time
C16_Witness ==
    \E a \in Agents :
       /\ is_active[a]
       /\ Len(execution_history[a]) = 2
       /\ execution_history[a][1].timestamp < execution_history[a][2].timestamp
       /\ execution_history[a][2].result.status = "error"
       /\ last_activity[a] = execution_history[a][2].timestamp

\* C17: whether the agent is running or stopped, the metrics report as
\* tasks_in_queue the number of tasks handed to add_task and not yet
\* dequeued, and as tasks_executed the length of the history, which is the
\* number of tasks dequeued and completed.
C17_MetricsCountQueueAndHistory ==
    \A a \in constructed :
       /\ MetricsOf(a).tasks_in_queue
             = (nextId - 1) - Len(execution_history[a]) - Cardinality(InFlight(a))
       /\ MetricsOf(a).tasks_executed = Len(execution_history[a])
       /\ MetricsOf(a).tasks_executed
             = (nextId - 1) - Len(tasks_queue[a]) - Cardinality(InFlight(a))

\* the metrics of a stopped agent whose loop has exited were taken: one task
\* executed, one task still pending in the queue
C17_Witness ==
    \E a \in constructed :
       /\ ~is_active[a]
       /\ AllLoopsExited(a)
       /\ snapshot[a] = MetricsOf(a)
       /\ snapshot[a].tasks_in_queue = 1
       /\ snapshot[a].tasks_executed = 1

\* a get_metrics or get_status of agent a that changes something of the agent
ImpureRead(a) ==
    /\ GetMetrics(a) \/ GetStatus(a)
    /\ ~UNCHANGED <<tasks_queue, execution_history, is_active, last_activity,
                    created_derivatives, licensed_ips>>

\* C18: get_metrics and get_status change nothing of the agent (queue,
\* history, is_active, last_activity, created_derivatives, licensed_ips), and
\* both can be taken whenever a task of the agent is in flight.
C18_ReadsArePureAndNeverBlocked ==
    \A a \in constructed :
       /\ ~ENABLED ImpureRead(a)
       /\ InFlight(a) # {} => ENABLED GetMetrics(a) /\ ENABLED GetStatus(a)

\* the uptime a snapshot reports
Uptime(s) ==
    IF s.call = "get_status" THEN s.metrics.uptime_seconds ELSE s.uptime_seconds

\* C19: created_at never changes once the agent is constructed, and each
\* status or metrics snapshot of an agent reports an uptime no smaller than
\* the snapshot before it, whatever start, stop, add_task and loop steps
\* came between them.
C19_UptimeNeverDecreases ==
    [][\A a \in Agents :
          /\ a \in constructed => created_at'[a] = created_at[a]
          /\ snapshot[a] # NoSnapshot =>
                Uptime(snapshot'[a]) >= Uptime(snapshot[a])]_vars

\* a snapshot taken after the clock moved, of an agent that has executed a
\* task and been stopped since its construction
C19_Witness ==
    \E a \in constructed :
       /\ snapshot[a] # NoSnapshot
       /\ Uptime(snapshot[a]) > 0
       /\ ~snapshot[a].is_active
       /\ execution_history[a] # <<>>

\* a request of any of the five routes for idol i
Request(i) ==
    \/ \E ct \in RouteContentTypes : RouteGenerateContent(i, ct)
    \/ \E ip \in IpIds, prm \in StyleRequests : RouteApplyStyle(i, ip, prm)
    \/ RouteGetStatus(i)
    \/ RouteGetAnalytics(i)
    \/ RouteClaimRoyalties(i)

\* C20: a request for an idol with no agent in the registry is answered
\* with not-found (404) and changes nothing else: no queue, no collaborator
\* call count, no agent state, no pending request, and the registry is the
\* same afterwards.
C20_UnknownAgentIsNotFound ==
    [][\A i \in IdolIds :
          (agent_registry[i] = NoAgent /\ Request(i)) =>
             /\ response'.code = 404
             /\ response'.body = ErrorResult("Idol agent not found")
             /\ UNCHANGED <<constructed, agentVars, calls, nextId, snapshot,
                            agent_registry, http_claim, http_sleeping>>]_vars

\* a request for an idol without an agent was answered with not-found while
\* another idol's agent stays registered with its task still queued
C20_Witness ==
    /\ response.code = 404
    /\ \E i \in IdolIds : agent_registry[i] = NoAgent
    /\ \E i \in IdolIds :
          /\ agent_registry[i] # NoAgent
          /\ tasks_queue[agent_registry[i]] # <<>>

\* a lookup of idol i through one of the read routes
ReadRequest(i) == RouteGetStatus(i) \/ RouteGetAnalytics(i)

\* C21: the registry never loses an entry: an id that has an agent keeps
\* having one, so a lookup of it is answered with a handle (200, never
\* not-found); registering an id, new or already present, makes the lookup
\* return the agent registered last, and no other step changes the registry.
C21_RegistryNeverLosesAnEntry ==
    [][\A i \in IdolIds :
          /\ agent_registry[i] # NoAgent => agent_registry'[i] # NoAgent
          /\ (agent_registry[i] # NoAgent /\ ReadRequest(i)) =>
                /\ response'.code = 200
                /\ snapshot'[agent_registry[i]].call \in {"get_status", "get_metrics"}
          /\ \A a \in Agents : InitializeIdolAgent(a, i) => agent_registry'[i] = a
          /\ agent_registry'[i] # agent_registry[i] =>
                \E a \in Agents : InitializeIdolAgent(a, i)]_vars

\* an id registered twice is looked up: the lookup is answered by the second
\* agent, while the first, replaced, has taken no request
C21_Witness ==
    \E i \in IdolIds :
       /\ agent_registry[i] = "a2"
       /\ idol_id["a1"] = i
       /\ response.code = 200
       /\ snapshot["a2"] # NoSnapshot
       /\ snapshot["a1"] = NoSnapshot

\* C22: a content-generation sweep puts exactly one generate_content task
\* on the queue of every registered agent that is active when it runs, and
\* leaves the queue of every other agent as it was.
C22_ContentSweepEnqueuesOnePerActiveAgent ==
    [][ContentSweep =>
          \A a \in Agents :
             IF a \in ActiveAgents
             THEN /\ Len(tasks_queue'[a]) = Len(tasks_queue[a]) + 1
                  /\ tasks_queue'[a][Len(tasks_queue'[a])].type = "generate_content"
                  /\ SubSeq(tasks_queue'[a], 1, Len(tasks_queue[a])) = tasks_queue[a]
             ELSE tasks_queue'[a] = tasks_queue[a]]_vars

\* C23: a failure while an agent is processed does not abort a sweep.  The
\* royalty sweep calls the claim of every agent it does not skip, whichever
\* of them raise, and counts the ones that returned; the content sweep goes
\* through every active agent; every sweep returns a completed status.
C23_SweepSurvivesAgentFailure ==
    [][/\ \A failed \in SUBSET Agents :
             RoyaltySweep(failed) =>
                /\ \A a \in SweepClaimers :
                      calls'[a].claim_royalties = calls[a].claim_royalties + 1
                /\ sweep_result'.status = "completed"
                /\ sweep_result'.agents_processed = Cardinality(SweepClaimers \ failed)
       /\ ContentSweep =>
             /\ sweep_result'.status = "completed"
             /\ sweep_result'.agents_processed = Cardinality(ActiveAgents)
       /\ LicenseSweep => sweep_result'.status = "completed"]_vars

\* a royalty sweep over two agents with derivatives completed although the
\* claim of one of them raised: both claims were called and one was counted
C23_Witness ==
    /\ sweep_result.task = "royalty_collection"
    /\ sweep_result.status = "completed"
    /\ sweep_result.agents_processed = 1
    /\ \A a \in Agents : calls[a].claim_royalties = 1

\* C24: a license sweep asks a license_ip task for at most 3 opportunities
\* of an agent, each among the first three of the list and with a score
\* strictly greater than 0.7; it puts at most 3 tasks, all license_ip, on
\* the queue of an active agent and nothing on the queue of an inactive one.
C24_LicenseSweepTakesTopHighConfidence ==
    [][/\ Len(selected') <= 3
       /\ \A k \in 1..Len(selected') :
             /\ selected'[k].has_score /\ selected'[k].score > 7
             /\ \E j \in 1..Len(opportunities') :
                   j <= 3 /\ opportunities'[j] = selected'[k]
       /\ LicenseSweep =>
             \A a \in Agents :
                /\ IsPrefix(tasks_queue[a], tasks_queue'[a])
                /\ Len(tasks_queue'[a]) - Len(tasks_queue[a]) <= 3
                /\ \A k \in (Len(tasks_queue[a]) + 1)..Len(tasks_queue'[a]) :
                      tasks_queue'[a][k].type = "license_ip"
                /\ a \notin ActiveAgents => tasks_queue'[a] = tasks_queue[a]]_vars

\* the sweep has run over an active agent, and of four opportunities, the
\* second at the threshold and the others above it, the first and the third
\* were selected
C24_Witness ==
    /\ sweep_result.task = "license_management"
    /\ sweep_result.agents_processed = 1
    /\ Len(opportunities) = 4
    /\ opportunities[2].score = 7
    /\ opportunities[4].score > 7
    /\ Len(selected) = 2
    /\ selected[1].ip_id = 1 /\ selected[2].ip_id = 3

\* C25: the ledgers created_derivatives and licensed_ips are append-only:
\* every step leaves each entry where it was and as it was and at most adds
\* entries at the end, so the lengths the status reports as content_created
\* and licenses_held never decrease.
C25_LedgersAreAppendOnly ==
    [][\A a \in Agents :
          /\ IsPrefix(created_derivatives[a], created_derivatives'[a])
          /\ IsPrefix(licensed_ips[a], licensed_ips'[a])
          /\ (StatusOf(a).content_created)' >= StatusOf(a).content_created
          /\ (StatusOf(a).licenses_held)' >= StatusOf(a).licenses_held]_vars

\* an agent that holds a license and a derivative has since failed a task,
\* and both entries are still there
C25_Witness ==
    \E a \in Agents :
       /\ Len(licensed_ips[a]) = 1
       /\ Len(created_derivatives[a]) = 1
       /\ Len(execution_history[a]) = 2
       /\ execution_history[a][1].result.status = "success"
       /\ execution_history[a][2].result.status = "error"

\* the child set cs names exactly the ip_ids of the ledger der, in order
NamesAllDerivatives(cs, der) ==
    /\ Len(cs) = Len(der)
    /\ \A k \in 1..Len(der) : cs[k] = der[k].ip_id

\* C26: with at least one derivative in the ledger, a royalty claim, made
\* by a claim_royalties task or by the royalty route, makes one
\* claim_royalties call for the agent's own idol id whose child set is the
\* ip_ids of all the entries of created_derivatives at that moment, and
\* what the call returns is what the claim returns.
C26_ClaimNamesEveryDerivative ==
    [][\A a \in Agents :
          /\ \A l \in 1..MaxStarts :
                /\ (/\ LoopDequeue(a, l)
                    /\ Head(tasks_queue[a]).type = "claim_royalties"
                    /\ created_derivatives[a] # <<>>) =>
                      /\ calls'[a].claim_royalties = calls[a].claim_royalties + 1
                      /\ loops'[a][l].call = "claim_royalties"
                      /\ loops'[a][l].args.ip_id = idol_id[a]
                      /\ NamesAllDerivatives(loops'[a][l].children,
                                             created_derivatives[a])
                /\ (/\ LoopCallReturns(a, l, TRUE)
                    /\ loops[a][l].call = "claim_royalties") =>
                      LastEntry(execution_history'[a]).result =
                          Result("success", "royalties", "claimed")
          /\ \A i \in IdolIds :
                (/\ RouteClaimRoyalties(i)
                 /\ agent_registry[i] = a
                 /\ created_derivatives[a] # <<>>) =>
                   /\ calls'[a].claim_royalties = calls[a].claim_royalties + 1
                   /\ http_claim'.agent = a
                   /\ http_claim'.ip_id = idol_id[a]
                   /\ NamesAllDerivatives(http_claim'.children, created_derivatives[a])
          /\ RouteClaimReturns(TRUE) =>
                /\ response'.code = 200
                /\ response'.body.value = "claimed"]_vars

\* a royalty request of an agent with two derivatives is inside its claim
\* call, made for the agent's idol id and naming both
C26_Witness ==
    /\ http_claim # NoRequest
    /\ http_claim.ip_id = idol_id[http_claim.agent]
    /\ Len(created_derivatives[http_claim.agent]) = 2
    /\ Len(http_claim.children) = 2
    /\ http_claim.children[1] # http_claim.children[2]

\* C27: the style application create_remix requests carries
\* style_strength 0.7 and preserve_identity true when the task gives no
\* parameters, and the task's own two values when it gives them, as the
\* tasks of the apply-style route do.
C27_RemixUsesTaskParameters ==
    \A a \in Agents : \A l \in 1..Len(loops[a]) :
       (loops[a][l].pc = "exec" /\ loops[a][l].call = "apply_style") =>
          LET given == loops[a][l].task.parameters
              sent == loops[a][l].args IN
          IF given.given
          THEN /\ sent.style_strength = given.style_strength
               /\ sent.preserve_identity = given.preserve_identity
          ELSE /\ sent.style_strength = 7
               /\ sent.preserve_identity = TRUE

\* C28: a dequeue timeout on an empty queue is not an error: it adds no
\* history entry and leaves last_activity, the queue, the ledgers and the
\* other loop instances as they were; the loop that timed out waits on the
\* queue again when is_active is still true and exits when it is false.
C28_TimeoutOnlyRechecksTheFlag ==
    [][\A a \in Agents : \A l \in 1..MaxStarts :
          LoopTimeout(a, l) =>
             /\ UNCHANGED <<execution_history, last_activity, tasks_queue,
                            licensed_ips, created_derivatives, is_active, calls>>
             /\ loops'[a][l].pc = IF is_active[a] THEN "get" ELSE "exited"
             /\ \A k \in 1..Len(loops[a]) : k # l => loops'[a][k] = loops[a][k]]_vars

\* a running agent whose loop, after a task and some time, waits on an empty
\* queue and can time out there
C28_Witness ==
    \E a \in Agents : \E l \in 1..Len(loops[a]) :
       /\ is_active[a]
       /\ execution_history[a] # <<>>
       /\ now > last_activity[a]
       /\ ENABLED LoopTimeout(a, l)

\* the identities of the tasks in the queue of agent a, head first
TaskIdsQueued(a) == [k \in 1..Len(tasks_queue[a]) |-> tasks_queue[a][k].id]

\* start has not been called on agent a: no loop instance was ever created
NeverStarted(a) == loops[a] = <<>>

\* C29: an agent is constructed stopped, with is_active false, no
\* last_activity, an empty queue and an empty history; until start is first
\* called it stays inactive, nothing is dequeued or executed, and every task
\* added is still in the queue, in the order of the add_task calls.
C29_NewAgentWaitsForStart ==
    \A a \in constructed :
       NeverStarted(a) =>
          /\ ~is_active[a] /\ last_activity[a] = NoTime
          /\ execution_history[a] = <<>>
          /\ calls[a] = NoCalls
          /\ TaskIdsQueued(a) = [k \in 1..(nextId - 1) |-> k]
          /\ nextId = 1 => tasks_queue[a] = <<>>

\* two tasks were added to an agent that was never started (and was told to
\* stop): both wait in the queue
C29_Witness ==
    /\ NeverStarted("a1")
    /\ Len(tasks_queue["a1"]) = 2
    /\ tasks_queue["a1"][1].type = "generate_content"

\* C30: an agent that was stopped and started again runs the tasks of its
\* queue one after the other in FIFO order, each exactly once: its history
\* lists them in the order they were queued, and a task still in flight was
\* queued after every task already recorded.
C30_RestartedAgentRunsQueueInOrder ==
    \A a \in Agents :
       Len(loops[a]) >= 2 =>
          /\ \A i \in 1..(Len(execution_history[a]) - 1) :
                execution_history[a][i].task.id < execution_history[a][i + 1].task.id
          /\ \A l \in InFlight(a) : \A j \in 1..Len(execution_history[a]) :
                execution_history[a][j].task.id < loops[a][l].task.id

\* the activity stamp a snapshot reports
LastActivityOf(s) ==
    IF s.call = "get_status" THEN s.metrics.last_activity ELSE s.last_activity

\* the number of executed tasks a snapshot reports
TasksExecutedOf(s) ==
    IF s.call = "get_status" THEN s.metrics.tasks_executed ELSE s.tasks_executed

\* agent a was started in this step
StartedNow(a) == Len(loops'[a]) > Len(loops[a])

\* this step put one complete {task, result, timestamp} entry at the end of
\* a's history, stamped with the agent's new last_activity, and left the
\* history within its cap
CompletionRecorded(a) ==
    /\ execution_history'[a] # <<>>
    /\ execution_history'[a] =
          TrimHistory(Append(execution_history[a], LastEntry(execution_history'[a])))
    /\ LastEntry(execution_history'[a]).task # NoTask
    /\ LastEntry(execution_history'[a]).result # NoResult
    /\ LastEntry(execution_history'[a]).timestamp = last_activity'[a]
    /\ Len(execution_history'[a]) <= HistoryCap

\* C31: no status or metrics read observes a torn completion.  A step in
\* which a task moves last_activity is the step that appends the task's
\* complete entry and trims the history, and every snapshot is the agent at
\* one instant: its activity stamp and its executed count are the ones of
\* the state it was taken in, the two stamps of a status agree, and an
\* activity stamp past the start of the agent comes with the history entry
\* that carries it.
C31_NoTornCompletion ==
    [][\A a \in constructed :
          /\ last_activity'[a] # last_activity[a] =>
                StartedNow(a) \/ CompletionRecorded(a)
          /\ snapshot'[a] # snapshot[a] =>
                /\ snapshot'[a] \in {MetricsOf(a), StatusOf(a)}
                /\ LastActivityOf(snapshot'[a]) = last_activity[a]
                /\ TasksExecutedOf(snapshot'[a]) = Len(execution_history[a])
                /\ snapshot'[a].call = "get_status" =>
                      snapshot'[a].last_activity = snapshot'[a].metrics.last_activity
                /\ LastActivityOf(snapshot'[a]) > created_at[a] =>
                      /\ TasksExecutedOf(snapshot'[a]) > 0
                      /\ LastEntry(execution_history[a]).timestamp
                            = LastActivityOf(snapshot'[a])]_vars

\* a status taken of an agent whose last task completed after the clock had
\* moved: the stamp it reports is the timestamp of the last history entry
C31_Witness ==
    \E a \in constructed :
       /\ snapshot[a] = StatusOf(a)
       /\ snapshot[a].last_activity > created_at[a]
       /\ execution_history[a] # <<>>
       /\ LastEntry(execution_history[a]).timestamp = snapshot[a].last_activity
       /\ snapshot[a].metrics.tasks_executed = Len(execution_history[a])

\* the indices of the records of licensed_ips made for ip
LicenseRecords(lic, ip) == {i \in 1..Len(lic) : lic[i].ip_id = ip}

\* the first token of the record inserted first among those made for ip
EarliestLicenseToken(lic, ip) ==
    LET m == LicenseRecords(lic, ip) IN
    lic[CHOOSE i \in m : \A j \in m : i <= j].license_tokens[1]

\* C32: a create_remix that finds license records for the style IP goes on
\* to apply_style with the first token of the record inserted first among
\* them; one that finds none mints, and goes on with the first token that
\* mint returned, recorded last in licensed_ips; the token chosen is the one
\* the derivative is registered with.
C32_RemixUsesFirstLicenseToken ==
    [][\A a \in Agents : \A l \in 1..Len(loops[a]) :
          LET f == loops[a][l]
              g == loops'[a][l]
              remix == g.pc = "exec" /\ g.task.type = "create_remix" IN
          /\ (remix /\ f.pc = "get") =>
                IF LicenseRecords(licensed_ips[a], g.task.style_ip_id) = {}
                THEN g.call = "mint_license_tokens"
                ELSE /\ g.call = "apply_style"
                     /\ g.tok = EarliestLicenseToken(licensed_ips[a], g.task.style_ip_id)
                     /\ licensed_ips'[a] = licensed_ips[a]
          /\ (remix /\ f.pc = "exec" /\ f.call = "mint_license_tokens") =>
                /\ g.call = "apply_style"
                /\ g.tok = f.tok
                /\ licensed_ips'[a] =
                      Append(licensed_ips[a],
                             [ip_id |-> g.task.style_ip_id, license_tokens |-> <<f.tok>>])
          /\ (remix /\ f.pc = "exec" /\ f.call # "mint_license_tokens") =>
                g.tok = f.tok]_vars

\* a remix about to register its derivative while two records exist for its
\* style IP: it carries the token of the first, not of the second
C32_Witness ==
    \E a \in Agents : \E l \in 1..Len(loops[a]) :
       /\ loops[a][l].pc = "exec"
       /\ loops[a][l].task.type = "create_remix"
       /\ loops[a][l].call = "create_derivative_content"
       /\ Cardinality(LicenseRecords(licensed_ips[a], loops[a][l].task.style_ip_id)) = 2
       /\ Len(licensed_ips[a]) = 2
       /\ loops[a][l].tok = licensed_ips[a][1].license_tokens[1]
       /\ loops[a][l].tok # licensed_ips[a][2].license_tokens[1]

\* the entries of history h that record a success of a task of one of types
Succeeded(h, types) ==
    {i \in 1..Len(h) : h[i].result.status = "success" /\ h[i].task.type \in types}

\* the entries of history h that record a failure of a task of one of types
Failed(h, types) ==
    {i \in 1..Len(h) : h[i].result.status = "error" /\ h[i].task.type \in types}

\* a create_remix task was handed to agent a
RemixHandedIn(a) ==
    \/ \E i \in 1..Len(tasks_queue[a]) : tasks_queue[a][i].type = "create_remix"
    \/ \E l \in InFlight(a) : loops[a][l].task.type = "create_remix"
    \/ \E i \in 1..Len(execution_history[a]) :
          execution_history[a][i].task.type = "create_remix"

\* C33: a failed task leaves its ledger as it was and a successful one
\* appends exactly one entry: created_derivatives holds one entry per content
\* or remix task recorded as a success and none for a failed or unfinished
\* one, and, remixes aside, licensed_ips holds one record per license_ip
\* task recorded as a success and none for a failed or unfinished one.
C33_FailedTaskLeavesLedgerUnchanged ==
    \A a \in Agents :
       /\ Len(created_derivatives[a])
             = Cardinality(Succeeded(execution_history[a],
                                     {"generate_content", "create_remix"}))
       /\ ~RemixHandedIn(a) =>
             Len(licensed_ips[a])
                = Cardinality(Succeeded(execution_history[a], {"license_ip"}))

\* a content task failed at the registration of its derivative, a license
\* task failed at its mint, and a content task succeeded since: one
\* derivative, no license
C33_Witness ==
    \E a \in Agents :
       /\ Cardinality(Failed(execution_history[a], {"generate_content"})) = 1
       /\ Cardinality(Failed(execution_history[a], {"license_ip"})) = 1
       /\ Cardinality(Succeeded(execution_history[a], {"generate_content"})) = 1
       /\ calls[a].create_derivative_content = 2
       /\ calls[a].mint_license_tokens = 1
       /\ Len(created_derivatives[a]) = 1
       /\ licensed_ips[a] = <<>>

\* the calls create_remix makes once it holds a license token
AfterLicenseCalls == {"apply_style", "upload_json", "create_derivative_content"}

\* C34: a create_remix task that fails after its mint has succeeded keeps
\* the license record and adds no derivative, and a create_remix task that
\* finds a record for its style IP makes no mint call from its dequeue to
\* its end.
C34_FailedRemixKeepsItsLicense ==
    [][\A a \in Agents : \A l \in 1..Len(loops[a]) :
          LET f == loops[a][l]
              g == loops'[a][l]
              ip == f.task.style_ip_id IN
          /\ (/\ f.pc = "exec" /\ f.task.type = "create_remix"
              /\ f.call \in AfterLicenseCalls
              /\ g.pc # "exec"
              /\ LastEntry(execution_history'[a]).result.status = "error") =>
                /\ LicenseRecords(licensed_ips'[a], ip) # {}
                /\ licensed_ips'[a] = licensed_ips[a]
                /\ created_derivatives'[a] = created_derivatives[a]
          /\ (/\ f.pc = "get" /\ g.pc = "exec" /\ g.task.type = "create_remix"
              /\ LicenseRecords(licensed_ips[a], g.task.style_ip_id) # {}) =>
                /\ g.call \in AfterLicenseCalls
                /\ calls'[a].mint_license_tokens = calls[a].mint_license_tokens
          /\ (/\ f.pc = "exec" /\ f.task.type = "create_remix"
              /\ f.call \in AfterLicenseCalls) =>
                calls'[a].mint_license_tokens = calls[a].mint_license_tokens]_vars

\* a remix failed after its mint, the same remix was enqueued again and
\* succeeded: one mint call in all, one license record, one derivative
C34_Witness ==
    \E a \in Agents :
       /\ Len(execution_history[a]) = 2
       /\ execution_history[a][1].task.type = "create_remix"
       /\ execution_history[a][1].result.status = "error"
       /\ execution_history[a][2].task.type = "create_remix"
       /\ execution_history[a][2].task.style_ip_id
             = execution_history[a][1].task.style_ip_id
       /\ execution_history[a][2].result.status = "success"
       /\ calls[a].mint_license_tokens = 1
       /\ calls[a].apply_style = 2
       /\ Len(licensed_ips[a]) = 1
       /\ Len(created_derivatives[a]) = 1

\* a step of a royalty request or of a royalty sweep
DirectClaimStep == direct' # direct \/ http_claim' # http_claim

\* C35: a royalty claim made directly, by the royalty route or by the
\* royalty sweep, goes past the task queue: from the request to the
\* response it leaves every agent's queue, history, last_activity,
\* created_derivatives and licensed_ips as they were, and the tasks_executed
\* the metrics report does not move.
C35_DirectClaimBypassesQueue ==
    [][DirectClaimStep =>
          \A a \in Agents :
             /\ tasks_queue'[a] = tasks_queue[a]
             /\ execution_history'[a] = execution_history[a]
             /\ last_activity'[a] = last_activity[a]
             /\ created_derivatives'[a] = created_derivatives[a]
             /\ licensed_ips'[a] = licensed_ips[a]
             /\ (MetricsOf(a).tasks_executed)' = MetricsOf(a).tasks_executed]_vars

\* an agent with one derivative and one task in its history was claimed for
\* by the route and by the sweep: two claim calls, still one task executed
C35_Witness ==
    \E a \in constructed :
       /\ response.route = "claim_royalties"
       /\ response.code = 200
       /\ response.body.value = "claimed"
       /\ sweep_result.status = "completed"
       /\ sweep_result.agents_processed = 1
       /\ calls[a].claim_royalties = 2
       /\ Len(created_derivatives[a]) = 1
       /\ MetricsOf(a).tasks_executed = 1

\* C36: an agent is in the registry only once it has been started: the step
\* that writes the registry is a bootstrap that ended well, of an agent
\* built in that step, already active and with its loop created; every
\* agent a lookup can return has had its start called; and a bootstrap that
\* ends in a failure leaves the registry as it was.
C36_RegisteredOnlyAfterStart ==
    [][/\ \A i \in IdolIds :
             agent_registry'[i] # agent_registry[i] =>
                LET a == agent_registry'[i] IN
                /\ init_log' = "initialized"
                /\ a \in constructed' \ constructed
                /\ is_active'[a]
                /\ loops'[a] # <<>>
                /\ last_activity'[a] = now
       /\ \A i \in IdolIds :
             LET a == Lookup(i)' IN
             a # NoAgent => a \in constructed' /\ loops'[a] # <<>>
                            /\ last_activity'[a] # NoTime
       /\ init_log' = "failed" => agent_registry' = agent_registry]_vars

\* one bootstrap registered its agent and a later one failed in start: the
\* first agent is still the only one a lookup returns
C36_Witness ==
    /\ init_log = "failed"
    /\ Cardinality(Registered) = 1
    /\ \E b \in constructed \ Registered : loops[b] = <<>> /\ is_active[b]
    /\ \A a \in Registered : loops[a] # <<>>

\* C37: the shutdown handler stops every agent of the registry: when it has
\* completed every registered agent has is_active false, and it has neither
\* executed nor discarded a task: every queue, history and loop is as it
\* was, and the registry still holds the same agents.
C37_ShutdownStopsEveryAgent ==
    [][ShutdownEvent =>
          /\ \A a \in Registered' : ~is_active'[a]
          /\ Registered' = Registered
          /\ \A a \in Agents :
                /\ tasks_queue'[a] = tasks_queue[a]
                /\ execution_history'[a] = execution_history[a]
                /\ loops'[a] = loops[a]
                /\ calls'[a] = calls[a]]_vars

\* the server was shut down with two agents registered: both are inactive,
\* one still has a task in its queue and one a task in flight
C37_Witness ==
    /\ Cardinality(Registered) = 2
    /\ \A a \in Registered : ~is_active[a]
    /\ \E a \in Registered : tasks_queue[a] # <<>>
    /\ \E a \in Registered : InFlight(a) # {}

\* C38: a generate_content task that names no content type is given one of
\* the agent's configured content types, and the type it is given is one
\* create_content accepts, so its generation call is not bound to end in an
\* unsupported-content-type error.
C38_UnnamedContentTypeIsSupported ==
    \A a \in Agents : \A l \in InFlight(a) :
       LET f == loops[a][l] IN
       (/\ f.task.type = "generate_content"
        /\ f.task.content_type = None
        /\ f.call = "create_content") =>
          /\ f.ctype \in ConfiguredContentTypes
          /\ f.ctype \in SupportedContentTypes
          /\ CallCanSucceed(f)

====
